---- MODULE Spec2Model ----
(***************************************************************************)
(* A model of the license-compatibility engine of lict: the scope algebra, *)
(* the rule chain of CompatibleInfer with its deferred callbacks, the      *)
(* compatibility query of Checker, and the two passes over the project     *)
(* graph (propagation, then compatibility filtering and conflict ids).     *)
(***************************************************************************)
EXTENDS Integers, Sequences, FiniteSets, TLC

(***************************************************************************)
(* Scope algebra (lict/utils/structure.py, class Scope).                   *)
(* A Scope is a dict protect-token -> set of escape tokens; it is modelled *)
(* as a function whose DOMAIN is the key set.  str()/from_str() keep the   *)
(* key set and every escape set, so an edge stores the scope value itself. *)
(***************************************************************************)
UNIVERSE == "UNIVERSAL"

EmptyScope == [k \in {} |-> {}]

Scope_universe == [k \in {UNIVERSE} |-> {}]

\* Scope({condition: set()}) as built by the callers of the checker
ScopeOf(token) == [k \in {token} |-> {}]

\* Scope._simplify
Scope_simplify(scope) ==
    IF UNIVERSE \in DOMAIN scope /\ scope[UNIVERSE] = {}
    THEN Scope_universe
    ELSE [k \in {x \in DOMAIN scope : x \notin scope[x]} |-> scope[k]]

\* Scope.__bool__
Scope_bool(scope) == DOMAIN Scope_simplify(scope) # {}

\* Scope.is_universal
Scope_is_universal(scope) == UNIVERSE \in DOMAIN scope /\ scope[UNIVERSE] = {}

\* The dict Scope.__and__ fills from the two simplified operands ss and so:
\* the two UNIVERSE blocks write new[k] in turn (the second overwrites the
\* first), then the common keys are joined with what is already there.
Scope_and_new(ss, so) ==
    LET pre(k) == IF UNIVERSE \in DOMAIN so /\ k \in DOMAIN ss THEN ss[k] \cup so[UNIVERSE]
                  ELSE IF UNIVERSE \in DOMAIN ss /\ k \in DOMAIN so THEN so[k] \cup ss[UNIVERSE]
                  ELSE {}
    IN [k \in (IF UNIVERSE \in DOMAIN ss THEN DOMAIN so ELSE {})
              \cup (IF UNIVERSE \in DOMAIN so THEN DOMAIN ss ELSE {})
              \cup (DOMAIN ss \cap DOMAIN so) |->
          IF k \in DOMAIN ss /\ k \in DOMAIN so THEN ss[k] \cup so[k] \cup pre(k) ELSE pre(k)]

\* Scope.__and__
Scope_and(self, other) ==
    Scope_simplify(Scope_and_new(Scope_simplify(self), Scope_simplify(other)))

\* The uncontains_scope Scope.__contains__ builds from the simplified operands
uncontains_scope(ss, so) ==
    LET remains(k) == IF k \in DOMAIN ss THEN ss[k] \ so[k] ELSE so[k]
    IN [k \in {x \in DOMAIN so : x \notin DOMAIN ss \/ remains(x) # {}} |-> remains(k)]

\* The tail of Scope.__contains__ : the verdict for an uncontains_scope unc
Scope_contains_rest(ss, unc) ==
    IF ~Scope_bool(unc) THEN TRUE
    ELSE IF UNIVERSE \notin DOMAIN ss THEN FALSE
    ELSE \A k \in DOMAIN unc : k \notin ss[UNIVERSE]

\* Scope.__contains__ : "other in self"
Scope_contains(self, other) ==
    Scope_contains_rest(Scope_simplify(self),
                        uncontains_scope(Scope_simplify(self), Scope_simplify(other)))

\* Scope.negate : every escape becomes a key that lists the non-UNIVERSE keys
\* it escaped from (the UNIVERSE key is taken as the first key of the dict).
Scope_negate(self) ==
    IF ~Scope_bool(self) THEN Scope_universe
    ELSE LET escapes == UNION {self[k] : k \in DOMAIN self}
         IN [v \in escapes |-> {k \in DOMAIN self \ {UNIVERSE} : v \in self[k]}]

\* The dict Scope.__or__ fills from the two simplified operands: a key of
\* both gets the intersection of the two escape sets, any other key its own
Scope_or_new(ss, so) ==
    [k \in DOMAIN ss \cup DOMAIN so |->
        IF k \in DOMAIN ss /\ k \in DOMAIN so THEN ss[k] \cap so[k]
        ELSE IF k \in DOMAIN ss THEN ss[k] ELSE so[k]]

\* The keys Scope.__or__ gives the empty dict {} as value, not a set: those
\* of both operands whose intersection is empty
Scope_or_dicts(ss, so) == {k \in DOMAIN ss \cap DOMAIN so : ss[k] \cap so[k] = {}}

\* Scope._simplify of a dict some of whose values are {} : a UNIVERSE key
\* with the value {} is not equal to set(), so it does not make the scope
\* universal; an empty dict has no element equal to its key
Scope_simplify_new(new, dicts) ==
    IF UNIVERSE \in DOMAIN new /\ new[UNIVERSE] = {} /\ UNIVERSE \notin dicts
    THEN [scope |-> Scope_universe, dicts |-> {}]
    ELSE [scope |-> [k \in {x \in DOMAIN new : x \notin new[x]} |-> new[k]],
          dicts |-> dicts]

\* Scope.__or__ : the keys and escapes of the result, and which of its
\* values are the empty dict
Scope_or(self, other) ==
    Scope_simplify_new(Scope_or_new(Scope_simplify(self), Scope_simplify(other)),
                       Scope_or_dicts(Scope_simplify(self), Scope_simplify(other)))

\* dict.__eq__ of what Scope.__or__ returned with a scope whose values are
\* sets: {} does not equal set()
Scope_or_eq(result, scope) == result.dicts = {} /\ result.scope = scope

(***************************************************************************)
(* Constants of lict/constants.py                                          *)
(***************************************************************************)
UNCONDITIONAL_COMPATIBLE == 0
CONDITIONAL_COMPATIBLE == 1
PARTIAL_INCOMPATIBLE == 2
INCOMPATIBLE == 3
UNKNOWN == 4

COMPILE == "COMPILE"
DYNAMIC_LINKING == "DYNAMIC_LINKING"
STATIC_LINKING == "STATIC_LINKING"
EXECUTABLE == "EXECUTABLE"

(***************************************************************************)
(* Feature model (structure.py: ActionFeat, LicenseFeat, Schemas).         *)
(***************************************************************************)
\* ActionFeat.__post_init__ : protect_scope [] means UNIVERSE, every protect
\* key gets the same escape set.
ActionFeat_scope(protect_scope, escape_scope) ==
    LET protect == IF protect_scope = {} THEN {UNIVERSE} ELSE protect_scope
    IN [k \in protect |-> escape_scope]

NoActions == [k \in {} |-> EmptyScope]

NoRelicense == [target |-> <<>>, scope |-> EmptyScope, present |-> FALSE]

Relicense(targets, scope) == [target |-> targets, scope |-> scope, present |-> TRUE]

LicenseFeat(id, can, cannot, must, relicense, triggering) ==
    [spdx_id |-> id, can |-> can, cannot |-> cannot, must |-> must,
     relicense |-> relicense, triggering |-> triggering]

\* The schema file: the actions in file order, each with its properties
\* (an empty value is a property the action does not have).
SchemaActions ==
    << [name |-> "modify",          immutability |-> {"cannot"}, compliance |-> {},       conflicts |-> {}],
       [name |-> "disclose_source", immutability |-> {},         compliance |-> {"must"}, conflicts |-> {}],
       [name |-> "same_license",    immutability |-> {},         compliance |-> {"must"}, conflicts |-> {}],
       [name |-> "commercial_use",  immutability |-> {},         compliance |-> {},       conflicts |-> {{"can", "cannot"}}],
       [name |-> "sublicense",      immutability |-> {},         compliance |-> {},       conflicts |-> {}],
       [name |-> "state_changes",   immutability |-> {},         compliance |-> {},       conflicts |-> {}] >>

\* Schemas.__getitem__
Schemas_getitem(name) ==
    LET i == CHOOSE i \in 1..Len(SchemaActions) : SchemaActions[i].name = name
    IN SchemaActions[i]

SchemaHas(name) == \E i \in 1..Len(SchemaActions) : SchemaActions[i].name = name

\* Schemas.__post_init__ : action_index[key] = action_name is an assignment,
\* so the index keeps, per property, the name of the last action that has it.
Schemas_action_index(property) ==
    LET having == {i \in 1..Len(SchemaActions) : SchemaActions[i][property] # {}}
    IN IF having = {} THEN <<>>
       ELSE << SchemaActions[CHOOSE i \in having : \A j \in having : j <= i].name >>

\* "name in action_index[property]" is Python's substring test on that one
\* name; no action name of the schema is a proper substring of another.
IsSubstring(a, b) == a = b

\* Schemas.has_property
Schemas_has_property(name, modal, property) ==
    LET idx == Schemas_action_index(property)
    IN /\ idx # <<>>
       /\ IsSubstring(name, idx[1])
       /\ modal \in Schemas_getitem(name)[property]

Modals == <<"can", "cannot", "must">>

\* LicenseFeat.features : the (name, modal) pairs of every modal table and of
\* the special table
LicenseFeat_features(lic) ==
    {<<n, "can">> : n \in DOMAIN lic.can} \cup {<<n, "cannot">> : n \in DOMAIN lic.cannot}
    \cup {<<n, "must">> : n \in DOMAIN lic.must}
    \cup (IF lic.relicense.present THEN {<<"relicense", "special">>} ELSE {})
    \cup (IF lic.triggering # {} THEN {<<"triggering", "special">>} ELSE {})

(***************************************************************************)
(* The loaded license descriptions (load_licenses): the feature files the  *)
(* inference reads.  Scopes are built the way ActionFeat builds them.      *)
(***************************************************************************)
Everywhere == ActionFeat_scope({}, {})

ExceptDynamic == ActionFeat_scope({}, {DYNAMIC_LINKING})

OnlyDynamic == ActionFeat_scope({DYNAMIC_LINKING}, {})

Acts(names, scope) == [n \in names |-> scope]

LicensePool ==
    << LicenseFeat("public-domain", NoActions, NoActions, NoActions, NoRelicense, {}),
       LicenseFeat("MIT", Acts({"modify", "commercial_use", "sublicense"}, Everywhere),
                   NoActions, NoActions, NoRelicense, {}),
       LicenseFeat("Apache-2.0", Acts({"modify", "commercial_use"}, Everywhere),
                   NoActions, Acts({"state_changes"}, Everywhere), NoRelicense, {}),
       LicenseFeat("GPL-2.0-only", Acts({"modify", "commercial_use"}, Everywhere),
                   NoActions, Acts({"same_license", "disclose_source"}, Everywhere),
                   NoRelicense, {}),
       LicenseFeat("GPL-2.0-or-later", Acts({"modify", "commercial_use"}, Everywhere),
                   NoActions, Acts({"same_license", "disclose_source"}, Everywhere),
                   NoRelicense, {}),
       LicenseFeat("GPL-3.0-only", Acts({"modify", "commercial_use"}, Everywhere),
                   NoActions,
                   Acts({"same_license", "disclose_source", "state_changes"}, Everywhere),
                   NoRelicense, {}),
       LicenseFeat("LGPL-2.1-or-later", Acts({"modify", "commercial_use"}, Everywhere),
                   Acts({"sublicense"}, ExceptDynamic),
                   Acts({"same_license"}, ExceptDynamic),
                   Relicense(<<"GPL-2.0-only", "GPL-3.0-only">>, OnlyDynamic), {}),
       LicenseFeat("LGPL-3.0-only", Acts({"modify", "commercial_use"}, Everywhere),
                   Acts({"sublicense"}, ExceptDynamic),
                   Acts({"same_license", "disclose_source", "state_changes"}, Everywhere),
                   Relicense(<<"GPL-3.0-only">>, OnlyDynamic), {}),
       LicenseFeat("MPL-2.0", Acts({"modify", "commercial_use"}, Everywhere),
                   NoActions, Acts({"disclose_source"}, Everywhere),
                   NoRelicense, {<<"must", "same_license">>}),
       LicenseFeat("CC-BY-ND-4.0", Acts({"commercial_use"}, Everywhere),
                   Acts({"modify"}, Everywhere), NoActions, NoRelicense, {}),
       LicenseFeat("CC-BY-NC-4.0", Acts({"modify"}, Everywhere),
                   Acts({"commercial_use"}, Everywhere), NoActions, NoRelicense, {}) >>

PoolIds == {LicensePool[i].spdx_id : i \in 1..Len(LicensePool)}

Feat(id) == LicensePool[CHOOSE i \in 1..Len(LicensePool) : LicensePool[i].spdx_id = id]

(***************************************************************************)
(* Identifier parsing (lict/utils/scaffold.py).  TLA+ has no regular       *)
(* expressions: the table gives, for every identifier of the pool, what    *)
(* split("-")[0], the version regex and the "or-later" test read from it.  *)
(***************************************************************************)
IdParts(id) ==
    CASE id = "public-domain"     -> [prefix |-> "public", version |-> <<>>,     or_later |-> FALSE]
      [] id = "MIT"               -> [prefix |-> "MIT",    version |-> <<>>,     or_later |-> FALSE]
      [] id = "Apache-2.0"        -> [prefix |-> "Apache", version |-> <<2, 0>>, or_later |-> FALSE]
      [] id = "GPL-2.0-only"      -> [prefix |-> "GPL",    version |-> <<2, 0>>, or_later |-> FALSE]
      [] id = "GPL-2.0-or-later"  -> [prefix |-> "GPL",    version |-> <<2, 0>>, or_later |-> TRUE]
      [] id = "GPL-3.0-only"      -> [prefix |-> "GPL",    version |-> <<3, 0>>, or_later |-> FALSE]
      [] id = "LGPL-2.1-or-later" -> [prefix |-> "LGPL",   version |-> <<2, 1>>, or_later |-> TRUE]
      [] id = "LGPL-3.0-only"     -> [prefix |-> "LGPL",   version |-> <<3, 0>>, or_later |-> FALSE]
      [] id = "MPL-2.0"           -> [prefix |-> "MPL",    version |-> <<2, 0>>, or_later |-> FALSE]
      [] id = "CC-BY-ND-4.0"      -> [prefix |-> "CC",     version |-> <<4, 0>>, or_later |-> FALSE]
      [] id = "CC-BY-NC-4.0"      -> [prefix |-> "CC",     version |-> <<4, 0>>, or_later |-> FALSE]
      [] id = "GPL-2.0-only-with-Classpath-exception-2.0"
                                  -> [prefix |-> "GPL",    version |-> <<2, 0>>, or_later |-> FALSE]

\* extract_version : the dotted number of the identifier, as its integers
extract_version(id) == IdParts(id).version

\* normalize_version : re.sub(r"(\.0+)*$", "", version) drops the trailing
\* zero components, then the rest is split into integers
RECURSIVE normalize_version(_)
normalize_version(version) ==
    IF Len(version) > 1 /\ version[Len(version)] = 0
    THEN normalize_version(SubSeq(version, 1, Len(version) - 1))
    ELSE version

\* Python's list comparison a > b (lexicographic)
RECURSIVE VersionGreater(_, _)
VersionGreater(a, b) ==
    IF a = <<>> THEN FALSE
    ELSE IF b = <<>> THEN TRUE
    ELSE IF Head(a) # Head(b) THEN Head(a) > Head(b)
    ELSE VersionGreater(Tail(a), Tail(b))

\* OrLaterRelicenseRule.get_normalized_version
get_normalized_version(id) == normalize_version(extract_version(id))

\* find_all_versions : the identifiers of ids (a sequence) with the prefix of id
find_all_versions(id, ids) ==
    SelectSeq(ids, LAMBDA x : IdParts(x).prefix = IdParts(id).prefix)

(***************************************************************************)
(* The compatibility graph (lict/utils/graph.py): a multigraph, kept as    *)
(* the sequence of its edges in insertion order, which is the key order    *)
(* networkx iterates the parallel edges of a pair in.                      *)
(***************************************************************************)
\* CompatibleRule.new_edge / Edge
Edge(u, v, compatibility, scope, rule, path) ==
    [u |-> u, v |-> v, compatibility |-> compatibility, scope |-> scope,
     rule |-> rule, path |-> path]

\* GraphManager.add_edge
add_edge(graph, edge) == Append(graph, edge)

\* GraphManager.query_edge_by_label(u, v) : every edge u -> v, in key order
query_edges(graph, u, v) == SelectSeq(graph, LAMBDA e : e.u = u /\ e.v = v)

\* GraphManager.query_edge_by_label(u, v, compatibility=c)
query_edge_by_label(graph, u, v, c) ==
    SelectSeq(graph, LAMBDA e : e.u = u /\ e.v = v /\ e.compatibility = c)

\* CompatibleRule.has_edge
has_edge(graph, u, v, c) == query_edge_by_label(graph, u, v, c) # <<>>

\* GraphManager.remove_edge over every index a query returned
remove_edges(graph, u, v, c) ==
    SelectSeq(graph, LAMBDA e : ~(e.u = u /\ e.v = v /\ e.compatibility = c))

\* OrLaterRelicenseRule.rm_existed_edges
rm_existed_edges(graph, a, b, c, bi_direct) ==
    LET g1 == remove_edges(graph, a, b, c)
    IN IF bi_direct THEN remove_edges(g1, b, a, c) ELSE g1

(***************************************************************************)
(* The rules (lict/infer.py).  A rule returns the next rule, the graph     *)
(* after the edges it recorded, and the callbacks it registered.  The      *)
(* licenses a rule is given are LicenseFeat records.                       *)
(***************************************************************************)
RuleNames == {"EndRule", "DefaultCompatibleRule", "PublicDomainRule", "ImmutabilityRule",
              "ExceptRelicenseRule", "OrLaterRelicenseRule", "ComplianceRequirementRule",
              "ClauseConflictRule"}

\* CompatibleInfer.__init__ : the rule whose start_rule / end_rule flag is set
start_rule == "PublicDomainRule"

end_rule == "EndRule"

Ret(next, graph, cbs) == [next |-> next, graph |-> graph, callbacks |-> cbs]

\* A registered callback: the rule whose callback it is and the two licenses
\* its lambda closes over
Callback(kind, license_a, license_b) == [kind |-> kind, a |-> license_a, b |-> license_b]

\* CompatibleRule.new_edge followed by graph.add_edge, for an edge without scope
add_new_edge(graph, license_a, license_b, compatibility, rule) ==
    add_edge(graph, Edge(license_a.spdx_id, license_b.spdx_id, compatibility, EmptyScope, rule, ""))

\* DefaultCompatibleRule.__call__ handing the pair back to ClauseConflictRule
DefaultCompatibleRule_back(license_a, license_b, graph) ==
    Ret("ClauseConflictRule",
        add_edge(graph, Edge(license_a.spdx_id, license_b.spdx_id, UNCONDITIONAL_COMPATIBLE,
                             EmptyScope, "DefaultCompatibleRule", "")),
        <<>>)

\* DefaultCompatibleRule.__call__
DefaultCompatibleRule(license_a, license_b, graph) ==
    Ret("EndRule",
        add_new_edge(graph, license_a, license_b, UNCONDITIONAL_COMPATIBLE, "DefaultCompatibleRule"),
        <<>>)

\* PublicDomainRule.__call__
PublicDomainRule(license_a, license_b, graph) ==
    IF license_a.spdx_id = "public-domain" \/ license_b.spdx_id = "public-domain"
    THEN Ret("EndRule",
             add_new_edge(graph, license_a, license_b, UNCONDITIONAL_COMPATIBLE, "PublicDomainRule"),
             <<>>)
    ELSE Ret("ImmutabilityRule", graph, <<>>)

\* any(self.schemas.has_property(x, "immutability") for x in lic.features)
is_immut(lic) ==
    \E x \in LicenseFeat_features(lic) : Schemas_has_property(x[1], x[2], "immutability")

\* ImmutabilityRule.__call__
ImmutabilityRule(license_a, license_b, graph) ==
    IF is_immut(license_a) \/ is_immut(license_b)
    THEN Ret("EndRule",
             add_new_edge(graph, license_a, license_b, INCOMPATIBLE, "ImmutabilityRule"),
             <<>>)
    ELSE Ret("ExceptRelicenseRule", graph, <<>>)

\* ExceptRelicenseRule.__call__
ExceptRelicenseRule(license_a, license_b, graph) ==
    IF license_a.relicense.present /\ Len(license_a.relicense.target) # 0
    THEN Ret("OrLaterRelicenseRule", graph,
             << Callback("ExceptRelicenseRule", license_a, license_b) >>)
    ELSE Ret("OrLaterRelicenseRule", graph, <<>>)

\* OrLaterRelicenseRule.__call__
OrLaterRelicenseRule(license_a, license_b, graph) ==
    IF IdParts(license_a.spdx_id).or_later
    THEN Ret("ComplianceRequirementRule", graph,
             << Callback("OrLaterRelicenseRule", license_a, license_b) >>)
    ELSE Ret("ComplianceRequirementRule", graph, <<>>)

\* ActionFeat.factory(name, modal, protect_scope, escape_scope): the scope of
\* the action it builds (the constructor of ActionFeat under another name)
ActionFeat_factory(protect_scope, escape_scope) == ActionFeat_scope(protect_scope, escape_scope)

\* One modal table of a license after the triggering clause of
\* check_compliance : every listed modal.action becomes an action of that
\* modal built with an empty protect and escape list.
TriggeredTable(lic, modal) ==
    [n \in DOMAIN lic[modal] \cup {t[2] : t \in {x \in lic.triggering : x[1] = modal}} |->
        IF \E t \in lic.triggering : t[1] = modal /\ t[2] = n
        THEN ActionFeat_factory({}, {}) ELSE lic[modal][n]]

\* new_license_a of check_compliance
Triggered(lic) ==
    [lic EXCEPT !.can = TriggeredTable(lic, "can"),
                !.cannot = TriggeredTable(lic, "cannot"),
                !.must = TriggeredTable(lic, "must")]

\* The loops of check_compliance over the compliance features of new_license_a
compliance_loop(new_license_a, license_b) ==
    \A feat_a \in {x \in LicenseFeat_features(new_license_a) :
                     Schemas_has_property(x[1], x[2], "compliance")} :
       \A modal \in Schemas_getitem(feat_a[1]).compliance :
          /\ \A key \in DOMAIN license_b[modal] \ DOMAIN new_license_a[modal] :
                ~Scope_bool(Scope_and(license_b[modal][key],
                                      new_license_a[feat_a[2]][feat_a[1]]))
          /\ \A key \in DOMAIN new_license_a[modal] \cap DOMAIN license_b[modal] :
                Scope_contains(new_license_a[modal][key], license_b[modal][key])

\* ComplianceRequirementRule.check_compliance
check_compliance(license_a, license_b) == compliance_loop(Triggered(license_a), license_b)

\* ComplianceRequirementRule.__call__
ComplianceRequirementRule(license_a, license_b, graph) ==
    IF ~check_compliance(license_a, license_b) \/ ~check_compliance(license_b, license_a)
    THEN Ret("EndRule",
             add_new_edge(graph, license_a, license_b, INCOMPATIBLE, "ComplianceRequirementRule"),
             <<>>)
    ELSE Ret("ClauseConflictRule", graph, <<>>)

\* The modal pairs of itertools.product / permutations, in loop order
ModalPairs == << <<"can", "cannot">>, <<"cannot", "can">>,
                 <<"must", "cannot">>, <<"cannot", "must">> >>

\* find_duplicate_keys for one modal pair: the actions both tables name,
\* taken in schema order, each with its modal pair
find_duplicate_keys(license_a, license_b, p) ==
    LET hit == SelectSeq([i \in 1..Len(SchemaActions) |-> SchemaActions[i].name],
                         LAMBDA n : n \in DOMAIN license_a[p[1]] \cap DOMAIN license_b[p[2]])
    IN [i \in 1..Len(hit) |-> <<p[1], p[2], hit[i]>>]

\* The conflicts ClauseConflictRule visits, in the order of its loops
ConflictItems(license_a, license_b) ==
    find_duplicate_keys(license_a, license_b, ModalPairs[1])
    \o find_duplicate_keys(license_a, license_b, ModalPairs[2])
    \o find_duplicate_keys(license_a, license_b, ModalPairs[3])
    \o find_duplicate_keys(license_a, license_b, ModalPairs[4])

\* The conflict loop body of ClauseConflictRule.__call__ once compatible_scope
\* is known not to be empty
ConflictAccumulate(acc, scope_a, compatible_scope) ==
    [acc EXCEPT !.conflict_flag = TRUE,
                !.condition_scope = Scope_and(@, compatible_scope),
                !.license_a_scope = Scope_and(@, Scope_and(Scope_negate(scope_a), compatible_scope))]

\* The conflict loop body from compatible_scope &= scope_a on
ConflictCompatible(acc, scope_a, compatible_scope) ==
    IF ~Scope_bool(compatible_scope) THEN [acc EXCEPT !.incompatible = TRUE]
    ELSE ConflictAccumulate(acc, scope_a, compatible_scope)

\* The conflict loop body from the test of conflict_scope on
ConflictScoped(acc, scope_a, conflict_scope) ==
    IF ~Scope_bool(conflict_scope) THEN acc
    ELSE IF Scope_is_universal(conflict_scope) THEN [acc EXCEPT !.incompatible = TRUE]
    ELSE ConflictCompatible(acc, scope_a, Scope_and(Scope_negate(conflict_scope), scope_a))

\* The body of the conflict loop of ClauseConflictRule.__call__ for one
\* conflict; acc carries condition_scope, license_a_scope, conflict_flag and
\* whether the rule has already returned INCOMPATIBLE.
ConflictStep(license_a, license_b, acc, item) ==
    IF acc.incompatible THEN acc
    ELSE IF Schemas_getitem(item[3]).conflicts # {}
            /\ ~\E mp \in Schemas_getitem(item[3]).conflicts : item[1] \in mp /\ item[2] \in mp
    THEN acc
    ELSE ConflictScoped(acc, license_a[item[1]][item[3]],
                        Scope_and(license_a[item[1]][item[3]], license_b[item[2]][item[3]]))

RECURSIVE ConflictFold(_, _, _, _)
ConflictFold(license_a, license_b, acc, items) ==
    IF items = <<>> THEN acc
    ELSE ConflictFold(license_a, license_b,
                      ConflictStep(license_a, license_b, acc, Head(items)), Tail(items))

\* ClauseConflictRule.__call__ after its loops, acc being what they left
ClauseConflictResult(license_a, license_b, graph, acc) ==
    IF acc.incompatible \/ (acc.conflict_flag /\ ~Scope_bool(acc.condition_scope))
    THEN Ret("EndRule",
             add_new_edge(graph, license_a, license_b, INCOMPATIBLE, "ClauseConflictRule"),
             <<>>)
    ELSE IF ~acc.conflict_flag THEN Ret("DefaultCompatibleRule", graph, <<>>)
    ELSE IF Scope_bool(acc.license_a_scope)
    THEN Ret("EndRule",
             add_edge(graph, Edge(license_a.spdx_id, license_b.spdx_id, CONDITIONAL_COMPATIBLE,
                                  acc.license_a_scope, "ClauseConflictRule", "")),
             <<>>)
    ELSE Ret("EndRule", graph, <<>>)

\* ClauseConflictRule.__call__
ClauseConflictRule(license_a, license_b, graph) ==
    IF has_edge(graph, license_b.spdx_id, license_a.spdx_id, UNCONDITIONAL_COMPATIBLE)
    THEN Ret("DefaultCompatibleRule", graph, <<>>)
    ELSE ClauseConflictResult(license_a, license_b, graph,
            ConflictFold(license_a, license_b,
                         [incompatible |-> FALSE, conflict_flag |-> FALSE,
                          condition_scope |-> Scope_universe,
                          license_a_scope |-> Scope_universe],
                         ConflictItems(license_a, license_b)))

(***************************************************************************)
(* The deferred callbacks.                                                 *)
(***************************************************************************)
\* The edges the condition_edges loop of ExceptRelicenseRule.callback adds
\* for the target tgt
relicense_condition_edges(graph, license_a, license_b, tgt) ==
    LET condition_edges == query_edge_by_label(graph, tgt, license_b.spdx_id, CONDITIONAL_COMPATIBLE)
        kept == SelectSeq([j \in 1..Len(condition_edges) |->
                              Scope_and(condition_edges[j].scope, license_a.relicense.scope)],
                          Scope_bool)
    IN [j \in 1..Len(kept) |->
           Edge(license_a.spdx_id, license_b.spdx_id, CONDITIONAL_COMPATIBLE, kept[j],
                "ExceptRelicenseRule", "")]

\* The target loop adding the CONDITIONAL edge of an UNCONDITIONAL target
\* without removing the INCOMPATIBLE edges of the pair
RECURSIVE RelicenseTargets_keep(_, _, _, _)
RelicenseTargets_keep(graph, license_a, license_b, i) ==
    IF i > Len(license_a.relicense.target) THEN graph
    ELSE IF has_edge(graph, license_a.relicense.target[i], license_b.spdx_id,
                     UNCONDITIONAL_COMPATIBLE)
    THEN add_edge(graph,
                  Edge(license_a.spdx_id, license_b.spdx_id, CONDITIONAL_COMPATIBLE,
                       license_a.relicense.scope, "ExceptRelicenseRule", ""))
    ELSE RelicenseTargets_keep(
            graph \o relicense_condition_edges(graph, license_a, license_b,
                                               license_a.relicense.target[i]),
            license_a, license_b, i + 1)

\* The target loop of ExceptRelicenseRule.callback, from target i on
RECURSIVE RelicenseTargets(_, _, _, _)
RelicenseTargets(graph, license_a, license_b, i) ==
    IF i > Len(license_a.relicense.target) THEN graph
    ELSE IF has_edge(graph, license_a.relicense.target[i], license_b.spdx_id,
                     UNCONDITIONAL_COMPATIBLE)
    THEN add_edge(remove_edges(graph, license_a.spdx_id, license_b.spdx_id, INCOMPATIBLE),
                  Edge(license_a.spdx_id, license_b.spdx_id, CONDITIONAL_COMPATIBLE,
                       license_a.relicense.scope, "ExceptRelicenseRule", ""))
    ELSE RelicenseTargets(
            graph \o relicense_condition_edges(graph, license_a, license_b,
                                               license_a.relicense.target[i]),
            license_a, license_b, i + 1)

\* ExceptRelicenseRule.callback
ExceptRelicenseRule_callback(ids, graph, license_a, license_b) ==
    IF has_edge(graph, license_a.spdx_id, license_b.spdx_id, UNCONDITIONAL_COMPATIBLE) THEN graph
    ELSE IF ~license_a.relicense.present THEN graph
    ELSE RelicenseTargets(graph, license_a, license_b, 1)

\* The edges the condition_edges loop of OrLaterRelicenseRule.callback adds
\* for the direction (x, y) of the target tgt
or_later_condition_edges(graph, src, dst, tgt, y) ==
    LET condition_edges == query_edge_by_label(graph, tgt, y, CONDITIONAL_COMPATIBLE)
    IN [j \in 1..Len(condition_edges) |->
           Edge(src, dst, CONDITIONAL_COMPATIBLE, condition_edges[j].scope,
                "OrLaterRelicenseRule", tgt)]

\* The body of the target loop upgrading the edge from license_a only: the
\* direction (license_b, tgt) is left out
OrLaterDirection_forward(graph, a, b, tgt, x, y) ==
    IF x # tgt THEN graph
    ELSE IF has_edge(graph, x, y, UNCONDITIONAL_COMPATIBLE)
    THEN add_edge(
           rm_existed_edges(rm_existed_edges(graph, a, b, INCOMPATIBLE, TRUE),
                            a, b, CONDITIONAL_COMPATIBLE, TRUE),
           Edge(a, b, UNCONDITIONAL_COMPATIBLE, EmptyScope, "OrLaterRelicenseRule", tgt))
    ELSE graph \o or_later_condition_edges(graph, a, b, tgt, y)

\* The body of the target loop of OrLaterRelicenseRule.callback for the
\* direction (x, y) of one target that is not license_b; a and b are the
\* identifiers of license_a and license_b
OrLaterDirection(graph, a, b, tgt, x, y) ==
    IF has_edge(graph, x, y, UNCONDITIONAL_COMPATIBLE)
    THEN add_edge(
           rm_existed_edges(rm_existed_edges(graph, a, b, INCOMPATIBLE, TRUE),
                            a, b, CONDITIONAL_COMPATIBLE, TRUE),
           Edge(IF x = tgt THEN a ELSE b, IF y = tgt THEN a ELSE b,
                UNCONDITIONAL_COMPATIBLE, EmptyScope, "OrLaterRelicenseRule", tgt))
    ELSE graph \o or_later_condition_edges(graph, IF x = tgt THEN a ELSE b,
                                           IF y = tgt THEN a ELSE b, tgt, y)

\* The case tgt == license_b.spdx_id of OrLaterRelicenseRule.callback
OrLaterSame(graph, a, b) ==
    add_edge(add_edge(rm_existed_edges(graph, a, b, INCOMPATIBLE, TRUE),
                      Edge(a, b, UNCONDITIONAL_COMPATIBLE, EmptyScope, "OrLaterRelicenseRule", "")),
             Edge(b, a, UNCONDITIONAL_COMPATIBLE, EmptyScope, "OrLaterRelicenseRule", ""))

\* The target loop of OrLaterRelicenseRule.callback
RECURSIVE OrLaterTargets(_, _, _, _)
OrLaterTargets(graph, a, b, later_licenses) ==
    IF later_licenses = <<>> THEN graph
    ELSE OrLaterTargets(
            IF Head(later_licenses) = b THEN OrLaterSame(graph, a, b)
            ELSE OrLaterDirection(
                    OrLaterDirection(graph, a, b, Head(later_licenses), Head(later_licenses), b),
                    a, b, Head(later_licenses), b, Head(later_licenses)),
            a, b, Tail(later_licenses))

\* The later_licenses filter of OrLaterRelicenseRule.callback
later_licenses_of(ids, a) ==
    SelectSeq(find_all_versions(a, ids),
              LAMBDA x : /\ VersionGreater(get_normalized_version(x), get_normalized_version(a))
                         /\ ~IdParts(x).or_later)

\* OrLaterRelicenseRule.callback
OrLaterRelicenseRule_callback(ids, graph, license_a, license_b) ==
    IF has_edge(graph, license_a.spdx_id, license_b.spdx_id, UNCONDITIONAL_COMPATIBLE) THEN graph
    ELSE OrLaterTargets(graph, license_a.spdx_id, license_b.spdx_id,
                        later_licenses_of(ids, license_a.spdx_id))

(***************************************************************************)
(* State.                                                                  *)
(***************************************************************************)
VARIABLES
    licenses,          \* the values of the dict given to check_compatibility, in dict order
    compatible_graph,  \* CompatibleInfer.compatible_graph
    callback_queque,   \* CompatibleInfer.callback_queque
    pc,                \* where check_compatibility is
    k,                 \* how many elements of itertools.product have been taken
    current_rule,      \* the rule the while loop is at
    visited,           \* the rules visited for the current pair
    applied,           \* rule applications for the current pair
    registered,        \* every callback registered so far, in order
    executed,          \* every callback executed so far, in order
    dual_lic,          \* filter_dual_license: the dual license it is given
    blacklist,         \* filter_dual_license: the blacklist it is given
    ignore_unk,        \* filter_dual_license: the ignore_unk flag it is given
    order,             \* the order in which "for group in dual_lic" yields the groups
    turn,              \* how many groups the running for loop has taken
    new_dual_lic,      \* filter_dual_license: new_dual_lic
    conflicts,         \* filter_dual_license: conflicts
    checked,           \* the groups that had a pair given to check_compatiblity
    context,           \* the project graph: its edges and the attribute dict of every node
    config,            \* the Config of the two parsers
    todo,              \* the rest of the processing sequence of the running pass
    conflicts_table,   \* Pass B: conflict id -> conflict pattern
    previous,          \* what an earlier run left (conflict ids, compatibility graph), kept aside
    operands,          \* the arguments of a call of one of the library functions
    called,            \* the functions that were called, in order
    returned           \* what the last call returned

inferVars == <<licenses, compatible_graph, callback_queque, pc, k, current_rule,
               visited, applied, registered, executed>>

\* The variables of the inference other than pc
inferRest == <<licenses, compatible_graph, callback_queque, k, current_rule,
               visited, applied, registered, executed>>

filterVars == <<dual_lic, blacklist, ignore_unk, order, turn, new_dual_lic, conflicts, checked>>

projectVars == <<context, config, todo, conflicts_table>>

\* The variables of a call of a library function
callVars == <<operands, called, returned>>

\* The variables the inference, the filter and a single run of the passes
\* leave alone
apartVars == <<callVars, previous>>

vars == <<inferVars, filterVars, projectVars, apartVars>>

\* No call of filter_dual_license has been made
FilterIdle ==
    /\ dual_lic = {}
    /\ blacklist = {}
    /\ ignore_unk = FALSE
    /\ order = <<>>
    /\ turn = 0
    /\ new_dual_lic = {}
    /\ conflicts = {}
    /\ checked = {}

\* No project graph has been given to the parsers
ProjectIdle ==
    /\ context = [edges |-> {}, nodes |-> <<>>]
    /\ config = [license_isolations |-> {}, permissive_spreads |-> {}, blacklist |-> {}]
    /\ todo = <<>>
    /\ conflicts_table = <<>>

\* The largest number of licenses given to one check_compatibility call
MaxLicenses == 3

RECURSIVE Reverse(_)
Reverse(seq) == IF seq = <<>> THEN <<>> ELSE Append(Reverse(Tail(seq)), Head(seq))

\* The dicts check_compatibility is given: some licenses of the pool, in file
\* order or in the reverse order
LicenseDicts ==
    LET sets == {S \in SUBSET PoolIds : Cardinality(S) >= 2 /\ Cardinality(S) <= MaxLicenses}
    IN {SelectSeq(LicensePool, LAMBDA x : x.spdx_id \in S) : S \in sets}
       \cup {Reverse(SelectSeq(LicensePool, LAMBDA x : x.spdx_id \in S)) : S \in sets}

\* licenses.keys()
license_keys == [i \in 1..Len(licenses) |-> licenses[i].spdx_id]

\* No library function has been called apart from the passes, and Pass B has
\* not run before
ApartIdle ==
    /\ operands = <<>>
    /\ called = <<>>
    /\ returned = <<>>
    /\ previous = <<>>

\* CompatibleInfer.__init__ followed by the call of check_compatibility on
\* one of the dicts
InferBegin(dicts) ==
    /\ licenses \in dicts
    /\ compatible_graph = <<>>
    /\ callback_queque = <<>>
    /\ pc = "pairs"
    /\ k = 0
    /\ current_rule = start_rule
    /\ visited = {}
    /\ applied = 0
    /\ registered = <<>>
    /\ executed = <<>>

\* The same with nothing else going on
InferStart(dicts) ==
    /\ InferBegin(dicts)
    /\ FilterIdle
    /\ ProjectIdle
    /\ ApartIdle

InferInit == InferStart(LicenseDicts)

NumPairs == Len(licenses) * Len(licenses)

\* The pair itertools.product yields as its n-th element
license_a_of(n) == licenses[((n - 1) \div Len(licenses)) + 1]

license_b_of(n) == licenses[((n - 1) % Len(licenses)) + 1]

\* The head of the for loop: take the next pair, skip it when both are the
\* same license, otherwise enter the rule chain at the start rule
NextPair ==
    /\ pc = "pairs"
    /\ k < NumPairs
    /\ k' = k + 1
    /\ IF license_a_of(k + 1) = license_b_of(k + 1)
       THEN UNCHANGED <<pc, current_rule, visited, applied>>
       ELSE /\ pc' = "chain"
            /\ current_rule' = start_rule
            /\ visited' = {}
            /\ applied' = 0
    /\ UNCHANGED <<licenses, compatible_graph, callback_queque, registered, executed>>
    /\ UNCHANGED <<filterVars, projectVars, apartVars>>

\* One turn of the while loop with current_rule = rule, r being what the
\* rule returns and does
RuleStep(rule, r) ==
    /\ pc = "chain"
    /\ current_rule = rule
    /\ IF rule \in visited
       THEN /\ pc' = "raised"
            /\ UNCHANGED <<compatible_graph, callback_queque, current_rule, visited,
                           applied, registered>>
       ELSE /\ visited' = visited \cup {rule}
            /\ applied' = applied + 1
            /\ compatible_graph' = r.graph
            /\ callback_queque' = callback_queque \o r.callbacks
            /\ registered' = registered \o r.callbacks
            /\ current_rule' = r.next
            /\ pc' = IF r.next = end_rule THEN "pairs" ELSE "chain"
    /\ UNCHANGED <<licenses, k, executed>>
    /\ UNCHANGED <<filterVars, projectVars, apartVars>>

PublicDomainStep ==
    RuleStep("PublicDomainRule",
             PublicDomainRule(license_a_of(k), license_b_of(k), compatible_graph))

ImmutabilityStep ==
    RuleStep("ImmutabilityRule",
             ImmutabilityRule(license_a_of(k), license_b_of(k), compatible_graph))

ExceptRelicenseStep ==
    RuleStep("ExceptRelicenseRule",
             ExceptRelicenseRule(license_a_of(k), license_b_of(k), compatible_graph))

OrLaterRelicenseStep ==
    RuleStep("OrLaterRelicenseRule",
             OrLaterRelicenseRule(license_a_of(k), license_b_of(k), compatible_graph))

ComplianceRequirementStep ==
    RuleStep("ComplianceRequirementRule",
             ComplianceRequirementRule(license_a_of(k), license_b_of(k), compatible_graph))

ClauseConflictStep ==
    RuleStep("ClauseConflictRule",
             ClauseConflictRule(license_a_of(k), license_b_of(k), compatible_graph))

DefaultCompatibleStep ==
    RuleStep("DefaultCompatibleRule",
             DefaultCompatibleRule(license_a_of(k), license_b_of(k), compatible_graph))

\* The for loop is exhausted: go on to the callback queue
ChainPassDone ==
    /\ pc = "pairs"
    /\ k = NumPairs
    /\ pc' = "drain"
    /\ UNCHANGED <<licenses, compatible_graph, callback_queque, k, current_rule,
                   visited, applied, registered, executed>>
    /\ UNCHANGED <<filterVars, projectVars, apartVars>>

\* The drain loop taking the newest callback, self.callback_queque.pop(),
\* while running the oldest
DrainStep_pop_last(kind, g) ==
    /\ pc = "drain"
    /\ callback_queque # <<>>
    /\ Head(callback_queque).kind = kind
    /\ callback_queque' = SubSeq(callback_queque, 1, Len(callback_queque) - 1)
    /\ compatible_graph' = g
    /\ executed' = Append(executed, callback_queque[Len(callback_queque)])
    /\ UNCHANGED <<licenses, pc, k, current_rule, visited, applied, registered>>
    /\ UNCHANGED <<filterVars, projectVars, apartVars>>

\* callback = self.callback_queque.pop(0); callback(licenses, graph), g being
\* the graph the callback leaves
DrainStep(kind, g) ==
    /\ pc = "drain"
    /\ callback_queque # <<>>
    /\ Head(callback_queque).kind = kind
    /\ callback_queque' = Tail(callback_queque)
    /\ compatible_graph' = g
    /\ executed' = Append(executed, Head(callback_queque))
    /\ UNCHANGED <<licenses, pc, k, current_rule, visited, applied, registered>>
    /\ UNCHANGED <<filterVars, projectVars, apartVars>>

RelicenseCallbackStep ==
    DrainStep("ExceptRelicenseRule",
              ExceptRelicenseRule_callback(license_keys, compatible_graph,
                                           Head(callback_queque).a, Head(callback_queque).b))

OrLaterCallbackStep ==
    DrainStep("OrLaterRelicenseRule",
              OrLaterRelicenseRule_callback(license_keys, compatible_graph,
                                            Head(callback_queque).a, Head(callback_queque).b))

\* The queue is empty: check_compatibility returns
Return ==
    /\ pc = "drain"
    /\ callback_queque = <<>>
    /\ pc' = "done"
    /\ UNCHANGED <<licenses, compatible_graph, callback_queque, k, current_rule,
                   visited, applied, registered, executed>>
    /\ UNCHANGED <<filterVars, projectVars, apartVars>>

InferNext ==
    \/ NextPair
    \/ PublicDomainStep
    \/ ImmutabilityStep
    \/ ExceptRelicenseStep
    \/ OrLaterRelicenseStep
    \/ ComplianceRequirementStep
    \/ ClauseConflictStep
    \/ DefaultCompatibleStep
    \/ ChainPassDone
    \/ RelicenseCallbackStep
    \/ OrLaterCallbackStep
    \/ Return

SpecInfer == InferInit /\ [][InferNext]_vars

(***************************************************************************)
(* The compatibility query (lict/checker.py).                              *)
(***************************************************************************)
\* The query answering CONDITIONAL_COMPATIBLE for a conditional edge whatever
\* the caller's scope is
Checker_first_edge_any_scope(edge_index, scope) ==
    IF edge_index = <<>> THEN UNKNOWN ELSE edge_index[1].compatibility

\* Checker.check_compatibility from the edge list of the pair on: the first
\* edge decides
Checker_first_edge(edge_index, scope) ==
    IF edge_index = <<>> THEN UNKNOWN
    ELSE IF edge_index[1].compatibility = CONDITIONAL_COMPATIBLE
    THEN IF Scope_contains(edge_index[1].scope, IF Scope_bool(scope) THEN scope ELSE EmptyScope)
         THEN CONDITIONAL_COMPATIBLE
         ELSE INCOMPATIBLE
    ELSE edge_index[1].compatibility

\* Checker.check_compatibility(license_a, license_b, scope) on the graph
Checker_check_compatibility(graph, license_a_id, license_b_id, scope) ==
    Checker_first_edge(query_edges(graph, license_a_id, license_b_id), scope)

\* The scopes a caller hands to the query
ScopeSamples ==
    {EmptyScope, Scope_universe, ScopeOf(COMPILE), ScopeOf(DYNAMIC_LINKING),
     ScopeOf(STATIC_LINKING), ScopeOf(EXECUTABLE),
     ActionFeat_scope({}, {DYNAMIC_LINKING}),
     ActionFeat_scope({STATIC_LINKING, DYNAMIC_LINKING}, {})}

(***************************************************************************)
(* Properties of the inference and of the query.                           *)
(***************************************************************************)
\* The keys of the licenses dict
LicenseIds == {licenses[i].spdx_id : i \in 1..Len(licenses)}

TerminalLabels == {UNCONDITIONAL_COMPATIBLE, CONDITIONAL_COMPATIBLE, INCOMPATIBLE}

\* C1: once check_compatibility has returned, the graph holds exactly one
\* edge A -> B for every ordered pair of distinct input licenses, and that
\* edge is labelled UNCONDITIONAL_COMPATIBLE, CONDITIONAL_COMPATIBLE or
\* INCOMPATIBLE.
C1_ExactlyOneTerminalEdge ==
    pc = "done" =>
        \A a, b \in LicenseIds :
            a # b => /\ Len(query_edges(compatible_graph, a, b)) = 1
                     /\ query_edges(compatible_graph, a, b)[1].compatibility \in TerminalLabels

\* The steps check_compatibility still has to take, at most: per pair left
\* one turn of the for loop and a turn of the while loop per rule; per
\* queued callback one turn of the drain loop
Remaining ==
    (NumPairs - k) * (2 * Cardinality(RuleNames) + 1)
    + (IF pc = "chain" THEN 2 * (Cardinality(RuleNames) - applied) ELSE 0)
    + Len(callback_queque)
    + (IF pc \in {"pairs", "chain"} THEN 2 ELSE IF pc = "drain" THEN 1 ELSE 0)

\* check_compatibility is at a place where one of its steps can be taken:
\* at the head of the for loop, in the while loop at a rule other than the
\* end rule, or in the drain loop with callbacks of the two rules queued
CanStep ==
    \/ pc = "pairs" /\ k <= NumPairs
    \/ pc = "chain" /\ current_rule \in RuleNames \ {end_rule}
    \/ pc = "drain" /\ \A i \in 1..Len(callback_queque) :
                          callback_queque[i].kind \in {"ExceptRelicenseRule", "OrLaterRelicenseRule"}

\* C2: the rule chain of a pair never visits a rule twice (the error is never
\* raised) and applies at most |rules| rules to the pair; check_compatibility
\* terminates: until it has returned it can take a step, and every step
\* lowers the number of steps left, which is never negative.
C2_ChainTerminates ==
    /\ [](/\ pc # "raised"
          /\ applied <= Cardinality(RuleNames)
          /\ Remaining >= 0
          /\ (pc # "done" => CanStep))
    /\ [][Remaining' < Remaining]_inferVars

\* check_compatibility has returned, its last pair went through every rule
\* before the end rule, and callbacks were drained
C2_Witness ==
    pc = "done" /\ applied = Cardinality(RuleNames) - 1 /\ executed # <<>>

C4_QueryTable ==
    \A a, b \in LicenseIds : \A s \in ScopeSamples :
        /\ query_edges(compatible_graph, a, b) = <<>> =>
              Checker_check_compatibility(compatible_graph, a, b, s) = UNKNOWN
        /\ Len(query_edges(compatible_graph, a, b)) = 1 =>
              Checker_check_compatibility(compatible_graph, a, b, s) =
                 IF query_edges(compatible_graph, a, b)[1].compatibility = CONDITIONAL_COMPATIBLE
                 THEN IF Scope_contains(query_edges(compatible_graph, a, b)[1].scope, s)
                      THEN CONDITIONAL_COMPATIBLE ELSE INCOMPATIBLE
                 ELSE query_edges(compatible_graph, a, b)[1].compatibility

\* A finished graph with a pair without edge, and a pair whose one edge is
\* conditional and is answered both ways, depending on the caller's scope
C4_Witness ==
    /\ pc = "done"
    /\ \E a, b \in LicenseIds : a # b /\ query_edges(compatible_graph, a, b) = <<>>
    /\ \E a, b \in LicenseIds :
          /\ Len(query_edges(compatible_graph, a, b)) = 1
          /\ query_edges(compatible_graph, a, b)[1].compatibility = CONDITIONAL_COMPATIBLE
          /\ \E s \in ScopeSamples :
                Checker_check_compatibility(compatible_graph, a, b, s) = CONDITIONAL_COMPATIBLE
          /\ \E s \in ScopeSamples :
                Checker_check_compatibility(compatible_graph, a, b, s) = INCOMPATIBLE

\* A is an or-later license and B a license of the same family with a
\* strictly greater normalised version and no or-later suffix
OrLaterPair(a, b) ==
    /\ IdParts(a).or_later
    /\ ~IdParts(b).or_later
    /\ IdParts(a).prefix = IdParts(b).prefix
    /\ VersionGreater(get_normalized_version(b), get_normalized_version(a))

\* C9: once check_compatibility has returned, the query answers
\* UNCONDITIONAL_COMPATIBLE in both directions for an or-later license and a
\* later license of its family, whatever the caller's scope is.
C9_OrLaterUnconditional ==
    pc = "done" =>
        \A a, b \in LicenseIds :
            OrLaterPair(a, b) =>
                \A s \in ScopeSamples :
                    /\ Checker_check_compatibility(compatible_graph, a, b, s)
                          = UNCONDITIONAL_COMPATIBLE
                    /\ Checker_check_compatibility(compatible_graph, b, a, s)
                          = UNCONDITIONAL_COMPATIBLE

(***************************************************************************)
(* Dual licenses (structure.py: DualUnit, DualLicense).  A DualLicense is   *)
(* a set of groups; for the passes a group is kept as the set of its       *)
(* members.  The order of the tuple a group is counts when two dual        *)
(* licenses are compared: the parser's results are kept as tuples.         *)
(***************************************************************************)
DualUnit(spdx_id, condition, exceptions) ==
    [spdx_id |-> spdx_id, condition |-> condition, exceptions |-> exceptions]

\* "-with-".join(exceptions) for a list that is not empty
RECURSIVE join_with(_)
join_with(exceptions) ==
    IF Len(exceptions) = 1 THEN exceptions[1]
    ELSE exceptions[1] \o "-with-" \o join_with(Tail(exceptions))

\* DualUnit.unit_spdx
unit_spdx(unit) ==
    IF unit.exceptions = <<>> THEN unit.spdx_id
    ELSE unit.spdx_id \o "-with-" \o join_with(unit.exceptions)

\* DualLicense.__bool__
DualLicense_bool(self) == self # {} /\ self # {{}}

\* DualLicense.__and__
DualLicense_and(self, other) == {p[1] \cup p[2] : p \in self \X other}

\* The tuple (license, condition) add_condition puts into a group: license
\* is no name of add_condition, so it is the builtin of that name
LicenseTuple(condition) == [builtin |-> "license", condition |-> condition]

\* Whether a member of a group is a DualUnit
IsDualUnit(member) == "spdx_id" \in DOMAIN member

\* DualLicense.add_condition : what one unit of a group contributes
add_condition_unit(unit, conditon) ==
    {DualUnit(unit.spdx_id, conditon, unit.exceptions)}
    \cup (IF unit.condition = "" \/ unit.condition = conditon
          THEN {unit}
          ELSE {LicenseTuple(unit.condition), LicenseTuple(conditon)})

\* DualLicense.add_condition
DualLicense_add_condition(self, conditon) ==
    {UNION {add_condition_unit(unit, conditon) : unit \in group} : group \in self}

(***************************************************************************)
(* The members of Checker and of the properties graph the parsers use.     *)
(***************************************************************************)
\* CompatibleInfer.check_license_property : the nodes one license adds to the
\* properties graph (nothing for a license without a feature)
property_nodes(lic) ==
    IF LicenseFeat_features(lic) = {} THEN {}
    ELSE {lic.spdx_id} \cup {f[1] : f \in LicenseFeat_features(lic)}
         \cup {lic.relicense.target[n] : n \in 1..Len(lic.relicense.target)}

\* Checker.is_license_exist on the properties graph of the loaded licenses
Checker_is_license_exist(loaded, license_name) ==
    \E n \in 1..Len(loaded) : license_name \in property_nodes(loaded[n])

\* Checker.is_copyleft : the license declares must.same_license
Checker_is_copyleft(loaded, spdx_id) ==
    \E n \in 1..Len(loaded) :
        loaded[n].spdx_id = spdx_id /\ "same_license" \in DOMAIN loaded[n].must

\* Checker.get_relicense : the first relicense target of the license when the
\* scope lies within the scope of its relicense clause, "" otherwise
Checker_get_relicense(loaded, spdx_id, scope) ==
    IF \E n \in 1..Len(loaded) :
           /\ loaded[n].spdx_id = spdx_id
           /\ loaded[n].relicense.present
           /\ Scope_contains(loaded[n].relicense.scope, scope)
    THEN (loaded[CHOOSE n \in 1..Len(loaded) : loaded[n].spdx_id = spdx_id]).relicense.target[1]
    ELSE ""

(***************************************************************************)
(* BaseCompatiblityParser (lict/parser/compatible.py): the filter.         *)
(***************************************************************************)
\* check_compatiblity looking at the answer for license_a -> license_b alone
check_compatiblity_forward(license_a2b, license_b2a, unk) ==
    IF license_a2b \in {CONDITIONAL_COMPATIBLE, UNCONDITIONAL_COMPATIBLE}
       \/ (unk /\ license_a2b = UNKNOWN)
    THEN license_a2b
    ELSE INCOMPATIBLE

\* check_compatiblity from the two answers of the checker on
check_compatiblity_result(license_a2b, license_b2a, unk) ==
    IF license_a2b \in {CONDITIONAL_COMPATIBLE, UNCONDITIONAL_COMPATIBLE}
       \/ (unk /\ license_a2b = UNKNOWN)
    THEN license_a2b
    ELSE IF license_b2a \in {CONDITIONAL_COMPATIBLE, UNCONDITIONAL_COMPATIBLE}
            \/ (unk /\ license_b2a = UNKNOWN)
    THEN license_b2a
    ELSE INCOMPATIBLE

\* The scope filter_dual_license builds from the condition of a unit; the
\* checker replaces a falsy one by the empty Scope
unit_scope(unit) == IF unit.condition # "" THEN ScopeOf(unit.condition) ELSE EmptyScope

\* BaseCompatiblityParser.check_compatiblity on the units of a pair
check_compatiblity(graph, license_a, license_b, unk) ==
    check_compatiblity_result(
        Checker_check_compatibility(graph, unit_spdx(license_a), unit_spdx(license_b),
                                    unit_scope(license_a)),
        Checker_check_compatibility(graph, unit_spdx(license_b), unit_spdx(license_a),
                                    unit_scope(license_b)),
        unk)

\* frozenset((license_a.unit_spdx, license_b.unit_spdx))
conflict_of(pair) == {unit_spdx(unit) : unit \in pair}

\* The blacklist loop on one group finding no blacklisted unit at all
blacklisted_none(group, list) == {}

\* The units of a group whose identifier is in the blacklist
blacklisted(group, list) == {lic \in group : unit_spdx(lic) \in list}

\* itertools.combinations(new_group, 2) without the pairs of equal spdx_id
distinct_pairs(new_group) ==
    {pair \in SUBSET new_group :
        /\ Cardinality(pair) = 2
        /\ \E a \in pair : \E b \in pair : a.spdx_id # b.spdx_id}

\* The orders in which a for loop can yield the members of a set
Orders(S) ==
    {s \in [1..Cardinality(S) -> S] : \A m, n \in 1..Cardinality(S) : m # n => s[m] # s[n]}

\* filter_dual_license is called: the early return for a falsy dual license,
\* conflicts = set(), new_dual_lic = dual_lic.copy() otherwise
filter_enter(d, b, u, o) ==
    /\ dual_lic' = d
    /\ blacklist' = b
    /\ ignore_unk' = u
    /\ order' = IF DualLicense_bool(d) THEN o ELSE <<>>
    /\ turn' = 0
    /\ new_dual_lic' = IF DualLicense_bool(d) THEN d ELSE {}
    /\ conflicts' = {}
    /\ checked' = {}
    /\ pc' = "blacklist"

\* One turn of the first for loop, hit being the blacklisted units of the
\* group (frozenset((lic,)) is a set of one DualUnit and conflicts holds sets
\* of strings, so that test never succeeds)
BlacklistTurn(group, hit) ==
    /\ pc = "blacklist"
    /\ turn < Len(order)
    /\ turn' = turn + 1
    /\ IF group \notin new_dual_lic
       THEN UNCHANGED <<conflicts, new_dual_lic>>
       ELSE /\ conflicts' = conflicts \cup {{unit_spdx(lic)} : lic \in hit}
            /\ new_dual_lic' = IF hit # {} THEN new_dual_lic \ {group} ELSE new_dual_lic
    /\ UNCHANGED <<dual_lic, blacklist, ignore_unk, order, checked, pc>>
    /\ UNCHANGED <<licenses, compatible_graph, callback_queque, k, current_rule,
                   visited, applied, registered, executed, projectVars, apartVars>>

BlacklistStep == BlacklistTurn(order[turn + 1], blacklisted(order[turn + 1], blacklist))

\* The first loop is exhausted
BlacklistDone ==
    /\ pc = "blacklist"
    /\ turn = Len(order)
    /\ pc' = "pairwise"
    /\ turn' = 0
    /\ UNCHANGED <<dual_lic, blacklist, ignore_unk, order, new_dual_lic, conflicts, checked>>
    /\ UNCHANGED <<licenses, compatible_graph, callback_queque, k, current_rule,
                   visited, applied, registered, executed, projectVars, apartVars>>

\* One turn of the second for loop on a group still in new_dual_lic.  pairs
\* are the pairs of distinct spdx_id of the filtered group, known those whose
\* conflict is in conflicts already, failing those of the others the check
\* answers INCOMPATIBLE for.  (A pair met after a failing pair of the same
\* two identifiers in this group is not checked again; the group is flagged
\* by then and the conflict recorded, so the turn ends in the same state.)
PairwiseTurn(group, known, failing) ==
    /\ conflicts' = conflicts \cup {conflict_of(pair) : pair \in failing}
    /\ new_dual_lic' = IF known # {} \/ failing # {}
                       THEN new_dual_lic \ {group} ELSE new_dual_lic

PairwiseStep ==
    /\ pc = "pairwise"
    /\ turn < Len(order)
    /\ turn' = turn + 1
    /\ IF order[turn + 1] \notin new_dual_lic
       THEN UNCHANGED <<conflicts, new_dual_lic, checked>>
       ELSE \E pairs \in {distinct_pairs({x \in order[turn + 1] :
                              Checker_is_license_exist(licenses, unit_spdx(x)) \/ ~ignore_unk})} :
              /\ PairwiseTurn(order[turn + 1],
                     {pair \in pairs : conflict_of(pair) \in conflicts},
                     {pair \in pairs :
                         /\ conflict_of(pair) \notin conflicts
                         /\ \E a \in pair : \E b \in pair \ {a} :
                              check_compatiblity(compatible_graph, a, b, ignore_unk) = INCOMPATIBLE})
              /\ checked' = IF \E pair \in pairs : conflict_of(pair) \notin conflicts
                            THEN checked \cup {order[turn + 1]} ELSE checked
    /\ UNCHANGED <<dual_lic, blacklist, ignore_unk, order, pc>>
    /\ UNCHANGED <<licenses, compatible_graph, callback_queque, k, current_rule,
                   visited, applied, registered, executed, projectVars, apartVars>>

\* The second loop is exhausted: return new_dual_lic, conflicts
FilterReturn ==
    /\ pc = "pairwise"
    /\ turn = Len(order)
    /\ pc' = "filtered"
    /\ UNCHANGED <<dual_lic, blacklist, ignore_unk, order, turn, new_dual_lic, conflicts, checked>>
    /\ UNCHANGED <<licenses, compatible_graph, callback_queque, k, current_rule,
                   visited, applied, registered, executed, projectVars, apartVars>>

(***************************************************************************)
(* filter_dual_license on its own: the knowledge graph of the whole pool   *)
(* is inferred, then the filter is called once.                            *)
(***************************************************************************)
\* The most units a group given to the filter has
MaxGroupSize == 2

\* The most groups a dual license given to the filter has
MaxGroups == 2

\* The units the groups given to the filter are made of
FilterUnits ==
    {DualUnit("LGPL-2.1-or-later", STATIC_LINKING, <<>>),
     DualUnit("LGPL-2.1-or-later", DYNAMIC_LINKING, <<>>),
     DualUnit("MPL-2.0", "", <<>>),
     DualUnit("CC-BY-NC-4.0", "", <<>>),
     DualUnit("GPL-2.0-only", "", <<"Classpath-exception-2.0">>)}

\* The dual licenses given to the filter
FilterInputs ==
    {d \in SUBSET {g \in SUBSET FilterUnits : Cardinality(g) <= MaxGroupSize} :
        Cardinality(d) <= MaxGroups}

\* Config.blacklist of the run
FilterBlacklist == {"CC-BY-NC-4.0"}

FilterInit == InferStart({LicensePool})

FilterCall ==
    /\ pc = "done"
    /\ \E d \in FilterInputs : \E u \in BOOLEAN : \E o \in Orders(d) :
          filter_enter(d, FilterBlacklist, u, o)
    /\ UNCHANGED <<licenses, compatible_graph, callback_queque, k, current_rule,
                   visited, applied, registered, executed, projectVars, apartVars>>

FilterNext ==
    \/ InferNext
    \/ FilterCall
    \/ BlacklistStep
    \/ BlacklistDone
    \/ PairwiseStep
    \/ FilterReturn

SpecFilter == FilterInit /\ [][FilterNext]_vars

(***************************************************************************)
(* Properties of filter_dual_license.                                      *)
(***************************************************************************)
\* Some unit of the group has its identifier in the blacklist of the call
HasBlacklisted(group) == \E lic \in group : unit_spdx(lic) \in blacklist

\* Two units of the group have different SPDX ids and the pairwise check of
\* the two answers INCOMPATIBLE
HasFailingPair(group) ==
    \E a \in group : \E b \in group :
        /\ a.spdx_id # b.spdx_id
        /\ check_compatiblity(compatible_graph, a, b, ignore_unk) = INCOMPATIBLE

\* C5: filter_dual_license(before_check, blacklist) returns only groups of
\* its input, a group of the input is returned exactly when it has no
\* blacklisted unit and no two units of different SPDX ids whose pairwise
\* check is INCOMPATIBLE, and the failing pairs of the groups that reach the
\* pairwise check are all in the returned conflict set.  (Stated for the
\* two-argument call, ignore_unk = False, on a truthy dual license.)
C5_FilterExact ==
    (pc = "filtered" /\ ~ignore_unk /\ DualLicense_bool(dual_lic)) =>
        /\ new_dual_lic \subseteq dual_lic
        /\ \A group \in dual_lic :
              /\ group \in new_dual_lic <=> (~HasBlacklisted(group) /\ ~HasFailingPair(group))
              /\ ~HasBlacklisted(group) =>
                    \A a \in group : \A b \in group :
                        (/\ a.spdx_id # b.spdx_id
                         /\ check_compatiblity(compatible_graph, a, b, ignore_unk) = INCOMPATIBLE)
                        => conflict_of({a, b}) \in conflicts

\* C6: a group of before_check with a unit whose identifier is blacklisted
\* never has a pair given to the compatibility check, and once the blacklist
\* loop is over it is out of the surviving dual license and the singleton
\* conflict of every blacklisted unit of it is in the conflict set.
C6_BlacklistedDropped ==
    \A group \in dual_lic :
        (DualLicense_bool(dual_lic) /\ HasBlacklisted(group)) =>
            /\ group \notin checked
            /\ pc \in {"pairwise", "filtered"} =>
                  /\ group \notin new_dual_lic
                  /\ \A lic \in group :
                        unit_spdx(lic) \in blacklist => {unit_spdx(lic)} \in conflicts

\* filter_dual_license has returned from a call on two groups, one with a
\* blacklisted unit next to a unit of another license, one that survives
\* after its pair was checked
C6_Witness ==
    /\ pc = "filtered"
    /\ new_dual_lic # {}
    /\ checked # {}
    /\ \E group \in dual_lic :
          /\ HasBlacklisted(group)
          /\ \E lic \in group : unit_spdx(lic) \notin blacklist

(***************************************************************************)
(* The project graph.  context.edges are the (parent, child) edges,        *)
(* context.nodes[n] is the attribute dict of node n: an attribute the node *)
(* does not have is no key of it.                                          *)
(***************************************************************************)
\* Config.literal2enum with the literal_mapping of the runs: static_library,
\* shared_library and executable are mapped, any other literal gives ""
Config_literal2enum(literal) ==
    CASE literal = "static_library" -> STATIC_LINKING
      [] literal = "shared_library" -> DYNAMIC_LINKING
      [] literal = "executable" -> EXECUTABLE
      [] OTHER -> ""

\* graph.successors(node), graph.predecessors(node)
successors(ctx, node) == {e[2] : e \in {x \in ctx.edges : x[1] = node}}

predecessors(ctx, node) == {e[1] : e \in {x \in ctx.edges : x[2] = node}}

\* A set of nodes in the order of the node numbers
RECURSIVE SortedSeq(_)
SortedSeq(S) ==
    IF S = {} THEN <<>>
    ELSE <<CHOOSE m \in S : \A n \in S : m <= n>>
         \o SortedSeq(S \ {CHOOSE m \in S : \A n \in S : m <= n})

\* nx.weakly_connected_components : the component the nodes of S lie in
RECURSIVE component(_, _)
component(ctx, S) ==
    IF \A e \in ctx.edges : (e[1] \in S) = (e[2] \in S) THEN S
    ELSE component(ctx, S \cup {e[1] : e \in {x \in ctx.edges : x[2] \in S}}
                          \cup {e[2] : e \in {x \in ctx.edges : x[1] \in S}})

\* nx.topological_sort of the subgraph on S: generation after generation, a
\* generation being the nodes all of whose parents are in earlier ones
RECURSIVE topological_sort(_, _)
topological_sort(ctx, S) ==
    IF S = {} THEN <<>>
    ELSE SortedSeq({n \in S : predecessors(ctx, n) \cap S = {}})
         \o topological_sort(ctx, {n \in S : predecessors(ctx, n) \cap S # {}})

\* The nodes in the order the two nested for loops of a parse take them:
\* component after component, each in topological order (Pass B) or in the
\* reverse of it (Pass A)
RECURSIVE processing_sequence(_, _, _)
processing_sequence(ctx, left, reverse) ==
    IF left = {} THEN <<>>
    ELSE (IF reverse
          THEN Reverse(topological_sort(ctx, component(ctx, {CHOOSE m \in left : \A n \in left : m <= n})))
          ELSE topological_sort(ctx, component(ctx, {CHOOSE m \in left : \A n \in left : m <= n})))
         \o processing_sequence(ctx, left \ component(ctx, {CHOOSE m \in left : \A n \in left : m <= n}),
                                reverse)

\* node_dict[key] = value
set_attr(node_dict, key, value) == (key :> value) @@ node_dict

(***************************************************************************)
(* BasePropagateParser (lict/parser/propagate.py): Pass A.                 *)
(***************************************************************************)
\* get_outbound : whether a unit of a group goes into the new group
spreads(loaded, cfg, lic, condition) ==
    /\ Checker_is_license_exist(loaded, unit_spdx(lic))
    /\ lic.condition \notin cfg.license_isolations
    /\ Checker_get_relicense(loaded, unit_spdx(lic), ScopeOf(lic.condition)) # "public-domain"
    /\ \/ Checker_is_copyleft(loaded, unit_spdx(lic))
       \/ condition \in cfg.permissive_spreads
       \/ "DEFAULT" \in cfg.permissive_spreads

\* get_outbound reads lic.unit_spdx of every member of every group: it raises
\* AttributeError on a member that is a tuple
get_outbound_raises(dual) ==
    DualLicense_bool(dual) /\ \E group \in dual : \E member \in group : ~IsDualUnit(member)

\* BasePropagateParser.get_outbound
get_outbound(loaded, cfg, dual, condition) ==
    IF ~DualLicense_bool(dual) THEN dual
    ELSE {{DualUnit(lic.spdx_id, condition, lic.exceptions) :
              lic \in {x \in group : spreads(loaded, cfg, x, condition)}} : group \in dual} \ {{}}

\* The for loop over the children of a node, current_outbound being {} for
\* None
RECURSIVE merge_children(_, _, _)
merge_children(ctx, current_outbound, children) ==
    IF children = <<>> THEN current_outbound
    ELSE IF "outbound" \notin DOMAIN ctx.nodes[Head(children)]
    THEN merge_children(ctx, current_outbound, Tail(children))
    ELSE IF ~DualLicense_bool(ctx.nodes[Head(children)].outbound)
    THEN merge_children(ctx, current_outbound, Tail(children))
    ELSE merge_children(ctx,
             DualLicense_and(ctx.nodes[Head(children)].outbound,
                             IF DualLicense_bool(current_outbound) THEN current_outbound
                             ELSE ctx.nodes[Head(children)].outbound),
             Tail(children))

\* node.get("licenses") when it is truthy, {} for None otherwise
own_licenses(node_dict) ==
    IF "licenses" \notin DOMAIN node_dict THEN {}
    ELSE IF DualLicense_bool(node_dict.licenses) THEN node_dict.licenses ELSE {}

\* The body of the Pass A loop for one node: marked is its attribute dict
\* after the isolation mark, current_outbound what the children loop leaves,
\* conditioned that after add_condition
PropagateTurn(node, marked, current_outbound, current_condition, conditioned) ==
    IF ~DualLicense_bool(current_outbound)
    THEN /\ context' = [context EXCEPT !.nodes[node] = marked]
         /\ todo' = Tail(todo)
         /\ pc' = pc
    ELSE IF get_outbound_raises(conditioned)
    THEN /\ context' = [context EXCEPT !.nodes[node] =
                            set_attr(marked, "before_check", current_outbound)]
         /\ todo' = todo
         /\ pc' = "raised"
    ELSE /\ context' = [context EXCEPT !.nodes[node] =
                            set_attr(set_attr(marked, "before_check", current_outbound),
                                     "outbound",
                                     get_outbound(licenses, config, conditioned, current_condition))]
         /\ todo' = Tail(todo)
         /\ pc' = pc

PropagateStep ==
    /\ pc = "propagate"
    /\ todo # <<>>
    /\ \E current_outbound \in
            {merge_children(context, own_licenses(context.nodes[Head(todo)]),
                            SortedSeq(successors(context, Head(todo))))} :
          PropagateTurn(Head(todo),
              IF Config_literal2enum(context.nodes[Head(todo)].type) \in config.license_isolations
              THEN set_attr(context.nodes[Head(todo)], "license_isolation", TRUE)
              ELSE context.nodes[Head(todo)],
              current_outbound,
              Config_literal2enum(context.nodes[Head(todo)].type),
              DualLicense_add_condition(current_outbound,
                                        Config_literal2enum(context.nodes[Head(todo)].type)))
    /\ UNCHANGED <<apartVars, inferRest, filterVars, config, conflicts_table>>

\* The Pass A loops are exhausted; propagate.parse returns and compatible.parse
\* starts on the same context with an empty conflicts_table
PropagateDone ==
    /\ pc = "propagate"
    /\ todo = <<>>
    /\ pc' = "check"
    /\ todo' = processing_sequence(context, DOMAIN context.nodes, FALSE)
    /\ conflicts_table' = <<>>
    /\ UNCHANGED <<apartVars, inferRest, filterVars, context, config>>

(***************************************************************************)
(* BaseCompatiblityParser.parse (lict/parser/compatible.py): Pass B.       *)
(***************************************************************************)
\* is_conflict_happened(dual_lic, conflicts), dual_lic being the set
\* filter_dual_license returned
is_conflict_happened(dual, pattern) ==
    /\ dual # {}
    /\ \A group \in dual :
          \E lic \in UNION pattern : lic \in {unit_spdx(du) : du \in group}

\* The values str(uuid4()) can give while the nodes of ctx are gone through:
\* as many as there are nodes, so that one is left for every node; a value
\* that is a key of the table already is taken not to come again
uuid4(ctx, table) == (1..Cardinality(DOMAIN ctx.nodes)) \ DOMAIN table

\* The id for a pattern that always is the new one
bind_id_fresh(table, pattern, uuid) == uuid

\* The id a pattern is bound to: uuid, the value of str(uuid4()), unless the
\* loop over conflicts_table.items() finds an id whose pattern is equal (were
\* there several, the dict would yield the one inserted first; the least
\* stands for it)
bind_id(table, pattern, uuid) ==
    IF \E id \in DOMAIN table : table[id] = pattern
    THEN CHOOSE id \in DOMAIN table :
            table[id] = pattern /\ \A other \in DOMAIN table : table[other] = pattern => id <= other
    ELSE uuid

\* conflicts_table[uuid] = pattern
table_set(table, uuid, pattern) ==
    IF uuid \in DOMAIN table THEN [table EXCEPT ![uuid] = pattern] ELSE (uuid :> pattern) @@ table

\* The (parent, conflict id) pairs the two nested loops over the parents go
\* through: none when the node has no outbound (the break)
parent_conflicts(ctx, node) ==
    IF ~DualLicense_bool(ctx.nodes[node].outbound) THEN {}
    ELSE {item \in predecessors(ctx, node) \X (1..Cardinality(DOMAIN ctx.nodes)) :
            /\ "conflict_group" \in DOMAIN ctx.nodes[item[1]]
            /\ item[2] \in ctx.nodes[item[1]].conflict_group}

\* The orders the nested loops can take them in: parent after parent, the
\* ids of one conflict_group in the order the set yields them
ParentOrders(items) ==
    {s \in Orders(items) : \A m, n \in DOMAIN s : m < n => s[m][1] <= s[n][1]}

\* One turn of the loop over the conflict ids of a parent; acc holds
\* new_pattern, new_pattern_flag and the ids added to the conflict_group of
\* the current node
inherit_turn(acc, after, found, conflict_id, conflict_pattern) ==
    IF after # {}
    THEN [acc EXCEPT !.group = IF is_conflict_happened(after, conflict_pattern)
                               THEN @ \cup {conflict_id} ELSE @]
    ELSE [new_pattern |-> acc.new_pattern \ conflict_pattern,
          group |-> IF Cardinality(acc.new_pattern \ conflict_pattern) # Cardinality(found)
                    THEN acc.group \cup {conflict_id} ELSE acc.group,
          flag |-> acc.flag /\ acc.new_pattern \ conflict_pattern # {}]

RECURSIVE inherit(_, _, _, _, _)
inherit(acc, after, found, table, idseq) ==
    IF idseq = <<>> THEN acc
    ELSE inherit(inherit_turn(acc, after, found, Head(idseq)[2], table[Head(idseq)[2]]),
                 after, found, table, Tail(idseq))

\* node_dict with conflict_group set to group when ids were added to it
with_group(node_dict, group) ==
    IF group = {} THEN node_dict ELSE set_attr(node_dict, "conflict_group", group)

\* The head of the Pass B loop for a node without before_check
CheckSkip ==
    /\ pc = "check"
    /\ todo # <<>>
    /\ "before_check" \notin DOMAIN context.nodes[Head(todo)]
    /\ todo' = Tail(todo)
    /\ UNCHANGED <<apartVars, inferVars, filterVars, context, config, conflicts_table>>

\* The head of the Pass B loop for a node with before_check: the call of
\* filter_dual_license (ignore_unk is the default of the argument table)
CheckFilter ==
    /\ pc = "check"
    /\ todo # <<>>
    /\ "before_check" \in DOMAIN context.nodes[Head(todo)]
    /\ \E o \in Orders(context.nodes[Head(todo)].before_check) :
          filter_enter(context.nodes[Head(todo)].before_check, config.blacklist, FALSE, o)
    /\ UNCHANGED <<apartVars, inferRest, projectVars>>

\* The rest of the loop body binding no id of its own: the node keeps the ids
\* taken from its parents and nothing else
CheckTurn_inherited_only(node, acc, inherited, uuid) ==
    /\ context' = [context EXCEPT !.nodes[node] = with_group(@, acc.group)]
    /\ conflicts_table' = conflicts_table

\* The rest of the loop body once filter_dual_license has returned, acc being
\* what the loops over the parents leave and inherited whether a parent had
\* a conflict_group, uuid the value of str(uuid4())
CheckTurn(node, acc, inherited, uuid) ==
    IF new_dual_lic # {}
    THEN /\ context' = [context EXCEPT !.nodes[node] = with_group(@, acc.group)]
         /\ conflicts_table' = conflicts_table
    ELSE IF ~inherited
    THEN /\ conflicts_table' = table_set(conflicts_table, bind_id(conflicts_table, conflicts, uuid),
                                         conflicts)
         /\ context' = [context EXCEPT !.nodes[node] =
                set_attr(set_attr(@, "conflict_group", {bind_id(conflicts_table, conflicts, uuid)}),
                         "first", TRUE)]
    ELSE IF acc.flag
    THEN /\ conflicts_table' = table_set(conflicts_table,
                                         bind_id(conflicts_table, acc.new_pattern, uuid),
                                         acc.new_pattern)
         /\ context' = [context EXCEPT !.nodes[node] =
                set_attr(@, "conflict_group",
                         acc.group \cup {bind_id(conflicts_table, acc.new_pattern, uuid)})]
    ELSE /\ context' = [context EXCEPT !.nodes[node] = with_group(@, acc.group)]
         /\ conflicts_table' = conflicts_table

CheckBind ==
    /\ pc = "filtered"
    /\ todo # <<>>
    /\ \E idseq \in ParentOrders(parent_conflicts(context, Head(todo))) :
          \E uuid \in uuid4(context, conflicts_table) :
             CheckTurn(Head(todo),
                       inherit([new_pattern |-> conflicts, group |-> {}, flag |-> TRUE],
                               new_dual_lic, conflicts, conflicts_table, idseq),
                       idseq # <<>>, uuid)
    /\ todo' = Tail(todo)
    /\ pc' = "check"
    /\ UNCHANGED <<apartVars, inferRest, filterVars, config>>

\* The Pass B loops are exhausted
CheckDone ==
    /\ pc = "check"
    /\ todo = <<>>
    /\ pc' = "checked"
    /\ UNCHANGED <<apartVars, inferRest, filterVars, projectVars>>

(***************************************************************************)
(* The two passes on a project: the knowledge graph of the whole pool is   *)
(* inferred, then a project graph goes through Pass A and Pass B.          *)
(***************************************************************************)
\* The most nodes a project graph of ProjectForests has
MaxNodes == 2

GPL_2_0 == DualUnit("GPL-2.0-only", "", <<>>)

Apache_2_0 == DualUnit("Apache-2.0", "", <<>>)

\* What a node carries as licenses: {} stands for a node without the
\* attribute
NodeLicenses ==
    {{}, {{GPL_2_0}}, {{GPL_2_0, Apache_2_0}}, {{DualUnit("CC-BY-NC-4.0", "", <<>>)}}}

NodeTypes == {"code", "static_library", "executable"}

\* The attribute dict of a node as the front end leaves it
node_dict_of(type, lics) ==
    IF lics = {} THEN [type |-> type] ELSE [type |-> type, licenses |-> lics]

\* Every forest on 1..n in which the parent of a node has a smaller number,
\* with every choice of types and licenses
ProjectForests ==
    UNION {
        {[edges |-> {<<parent[n], n>> : n \in {x \in 1..size : parent[x] # 0}},
          nodes |-> [n \in 1..size |-> node_dict_of(types[n], lics[n])]] :
            parent \in {f \in [1..size -> 0..size] : \A n \in 1..size : f[n] < n},
            types \in [1..size -> NodeTypes],
            lics \in [1..size -> NodeLicenses]} : size \in 1..MaxNodes}

\* The isolation scenario: an executable with two subtrees, a static library
\* of a GPL-2.0-only file and an Apache-2.0 file, and a static library of
\* its own MIT license
IsolationScenario ==
    [edges |-> {<<1, 2>>, <<1, 3>>, <<2, 4>>, <<2, 5>>},
     nodes |-> << [type |-> "executable"],
                  [type |-> "static_library"],
                  [type |-> "static_library", licenses |-> {{DualUnit("MIT", "", <<>>)}}],
                  [type |-> "code", licenses |-> {{GPL_2_0}}],
                  [type |-> "code", licenses |-> {{Apache_2_0}}] >>]

\* The same with the offending pair as the licenses of the subtree root
IsolationScenarioFlat ==
    [edges |-> {<<1, 2>>, <<1, 3>>},
     nodes |-> << [type |-> "executable"],
                  [type |-> "static_library", licenses |-> {{GPL_2_0, Apache_2_0}}],
                  [type |-> "static_library", licenses |-> {{DualUnit("MIT", "", <<>>)}}] >>]

\* A static library without licenses of its own over one file that is
\* offered under GPL-2.0-only or under Apache-2.0
DualChildScenario ==
    [edges |-> {<<1, 2>>},
     nodes |-> << [type |-> "static_library"],
                  [type |-> "code", licenses |-> {{GPL_2_0}, {Apache_2_0}}] >>]

\* A file under GPL-2.0-only and Apache-2.0 that two components contain, one
\* with Apache-2.0 and one with LGPL-2.1-or-later as its own license
TwoParentScenario ==
    [edges |-> {<<1, 3>>, <<2, 3>>},
     nodes |-> << [type |-> "code", licenses |-> {{Apache_2_0}}],
                  [type |-> "code", licenses |-> {{DualUnit("LGPL-2.1-or-later", "", <<>>)}}],
                  [type |-> "code", licenses |-> {{GPL_2_0, Apache_2_0}}] >>]

Projects ==
    ProjectForests
    \cup {IsolationScenario, IsolationScenarioFlat, DualChildScenario, TwoParentScenario}

\* The configurations of the runs
Configs ==
    {[license_isolations |-> {EXECUTABLE}, permissive_spreads |-> spread,
      blacklist |-> {"CC-BY-NC-4.0"}] : spread \in {{}, {"DEFAULT"}}}

\* The dict check_compatibility is given, in file order: the licenses the
\* nodes of the projects carry and one that registers the two callbacks
ProjectLicenses ==
    SelectSeq(LicensePool,
              LAMBDA x : x.spdx_id \in {"MIT", "Apache-2.0", "GPL-2.0-only",
                                        "LGPL-2.1-or-later", "CC-BY-NC-4.0"})

ProjectInit == InferStart({ProjectLicenses})

\* propagate.parse is called on a project graph
ProjectLoad ==
    /\ pc = "done"
    /\ \E project \in Projects : \E cfg \in Configs :
          /\ context' = project
          /\ config' = cfg
          /\ todo' = processing_sequence(project, DOMAIN project.nodes, TRUE)
    /\ pc' = "propagate"
    /\ UNCHANGED <<apartVars, inferRest, filterVars, conflicts_table>>

ProjectNext ==
    \/ InferNext
    \/ ProjectLoad
    \/ PropagateStep
    \/ PropagateDone
    \/ CheckSkip
    \/ CheckFilter
    \/ BlacklistStep
    \/ BlacklistDone
    \/ PairwiseStep
    \/ FilterReturn
    \/ CheckBind
    \/ CheckDone

SpecProject == ProjectInit /\ [][ProjectNext]_vars

(***************************************************************************)
(* Properties of the two passes.                                           *)
(***************************************************************************)
\* Pass A has gone through every node
PassADone == pc \in {"check", "checked"}

\* The node's condition is one of license_isolations
isolating(node) == Config_literal2enum(context.nodes[node].type) \in config.license_isolations

\* The nodes of the subtrees of the nodes of S, S included
RECURSIVE subtree(_, _)
subtree(ctx, S) ==
    IF \A e \in ctx.edges : e[1] \in S => e[2] \in S THEN S
    ELSE subtree(ctx, S \cup {e[2] : e \in {x \in ctx.edges : x[1] \in S}})

\* The licenses the nodes of S carry
spdx_of(ctx, S) ==
    {unit_spdx(unit) : unit \in UNION UNION {own_licenses(ctx.nodes[n]) : n \in S}}

\* The node has a before_check that names one of the licenses
names(node_dict, ids) ==
    /\ "before_check" \in DOMAIN node_dict
    /\ \E unit \in UNION node_dict.before_check : IsDualUnit(unit) /\ unit_spdx(unit) \in ids

\* C7: once Pass A is over, a node whose condition is listed in
\* license_isolations is marked license_isolation, the outbound stored for it
\* holds no license unit, and no license that only the node and its subtree
\* carry is in the before_check of a parent of the node
C7_IsolationStopsOutbound ==
    PassADone =>
        \A node \in DOMAIN context.nodes :
            isolating(node) =>
                /\ "license_isolation" \in DOMAIN context.nodes[node]
                /\ "outbound" \in DOMAIN context.nodes[node] =>
                        UNION context.nodes[node].outbound = {}
                /\ \A parent \in predecessors(context, node) :
                        ~names(context.nodes[parent],
                               spdx_of(context, subtree(context, {node}))
                                 \ spdx_of(context, {parent} \cup
                                      subtree(context, successors(context, parent) \ {node})))

\* The project is the given one: the same edges, types and licenses
same_project(ctx, project) ==
    /\ ctx.edges = project.edges
    /\ DOMAIN ctx.nodes = DOMAIN project.nodes
    /\ \A n \in DOMAIN project.nodes :
          /\ ctx.nodes[n].type = project.nodes[n].type
          /\ own_licenses(ctx.nodes[n]) = own_licenses(project.nodes[n])

\* C8: on the isolation scenario (an executable with a statically linked
\* subtree whose root combines GPL-2.0-only with Apache-2.0 and a clean
\* subtree) the two passes run to their end, and then the offending subtree
\* root has a conflict id and the parent has none
C8_IsolationScenarioOutcome ==
    (same_project(context, IsolationScenario) \/ same_project(context, IsolationScenarioFlat)) =>
        /\ pc # "raised"
        /\ pc = "checked" =>
              /\ "conflict_group" \in DOMAIN context.nodes[2]
              /\ "conflict_group" \notin DOMAIN context.nodes[1]

\* No two ids of the table have equal patterns
no_equal_patterns(table) ==
    \A id, other \in DOMAIN table : table[id] = table[other] => id = other

\* The pattern Pass B is about to bind to the node whose filter has returned:
\* the conflicts found, less the patterns of the parents' conflict ids
pattern_to_bind(node) ==
    conflicts \ UNION {conflicts_table[item[2]] : item \in parent_conflicts(context, node)}

\* Pass B is about to bind a pattern to the node
binds(node) ==
    /\ pc = "filtered"
    /\ new_dual_lic = {}
    /\ parent_conflicts(context, node) # {} => pattern_to_bind(node) # {}

\* C10: in every step the conflict table is left without two ids of equal
\* patterns, and a step of Pass B that binds a pattern the table already
\* stores leaves the table as it is and gives the node the id stored for it
C10_EqualPatternsShareId ==
    [][/\ no_equal_patterns(conflicts_table')
       /\ (todo # <<>> /\ binds(Head(todo))
           /\ \E id \in DOMAIN conflicts_table : conflicts_table[id] = pattern_to_bind(Head(todo)))
          => /\ conflicts_table' = conflicts_table
             /\ "conflict_group" \in DOMAIN context'.nodes[Head(todo)]
             /\ \E id \in context'.nodes[Head(todo)].conflict_group :
                   conflicts_table[id] = pattern_to_bind(Head(todo))]_vars

\* Pass B is over and two nodes that each were the first to show a conflict
\* share the one id of the table
C10_Witness ==
    /\ pc = "checked"
    /\ Cardinality(DOMAIN conflicts_table) = 1
    /\ \E m, n \in DOMAIN context.nodes :
          /\ m # n
          /\ "first" \in DOMAIN context.nodes[m]
          /\ "first" \in DOMAIN context.nodes[n]
          /\ context.nodes[m].conflict_group = DOMAIN conflicts_table
          /\ context.nodes[n].conflict_group = DOMAIN conflicts_table

(***************************************************************************)
(* Pass B run a second time on the graph Pass A left.                      *)
(***************************************************************************)
\* The conflict ids of the nodes, none for a node without conflict_group
conflict_ids(ctx) ==
    [n \in DOMAIN ctx.nodes |->
        IF "conflict_group" \in DOMAIN ctx.nodes[n] THEN ctx.nodes[n].conflict_group ELSE {}]

\* The attribute dict of a node as it was before Pass B wrote to it
before_pass_b(node_dict) ==
    [key \in DOMAIN node_dict \ {"conflict_group", "first"} |-> node_dict[key]]

\* compatible.parse is called again on the same propagated graph, with the
\* same knowledge graph and Config; what the run before gave is kept aside
Rerun ==
    /\ pc = "checked"
    /\ previous = <<>>
    /\ previous' = conflict_ids(context)
    /\ context' = [context EXCEPT !.nodes = [n \in DOMAIN context.nodes |-> before_pass_b(context.nodes[n])]]
    /\ conflicts_table' = <<>>
    /\ todo' = processing_sequence(context, DOMAIN context.nodes, FALSE)
    /\ pc' = "check"
    /\ UNCHANGED <<callVars, inferRest, filterVars, config>>

RerunNext == ProjectNext \/ Rerun

SpecRerun == ProjectInit /\ [][RerunNext]_vars

\* C11: when Pass B has run twice on the same project graph, compatibility
\* graph and configuration, every node has the same conflict ids after the
\* second run as it had after the first
C11_ConflictIdsReproducible ==
    (pc = "checked" /\ previous # <<>>) => conflict_ids(context) = previous

\* C12: the passes never stop at a node with an exception: every node of the
\* graph is gone through, whatever the data of a single node are
C12_NoAbortOnNode == pc # "raised"

(***************************************************************************)
(* Calls of the library functions of lict/utils/structure.py on their own. *)
(* operands are the arguments, called the functions applied so far and     *)
(* returned the value the last of them gave.                               *)
(***************************************************************************)
\* The keys and the escapes of the scopes the calls are made on
ScopeKeys == {UNIVERSE, STATIC_LINKING, DYNAMIC_LINKING}

ScopeEscapes == {STATIC_LINKING, DYNAMIC_LINKING}

Scopes == UNION {[keys -> SUBSET ScopeEscapes] : keys \in SUBSET ScopeKeys}

\* The scopes _simplify leaves as they are
SimplifiedScopes == {scope \in Scopes : Scope_simplify(scope) = scope}

\* What a call is made on: the class and the arguments
Operands(class, arguments) == {[class |-> class, args |-> args] : args \in arguments}

ScopeOperands == Operands("Scope", {<<x>> : x \in Scopes} \cup (Scopes \X Scopes))

\* x & y
ScopeAndCall ==
    /\ called = <<>>
    /\ operands.class = "Scope" /\ Len(operands.args) = 2
    /\ called' = <<"Scope.__and__">>
    /\ returned' = Scope_and(operands.args[1], operands.args[2])
    /\ UNCHANGED <<inferVars, filterVars, projectVars, previous, operands>>

\* x | y
ScopeOrCall ==
    /\ called = <<>>
    /\ operands.class = "Scope" /\ Len(operands.args) = 2
    /\ called' = <<"Scope.__or__">>
    /\ returned' = Scope_or(operands.args[1], operands.args[2])
    /\ UNCHANGED <<inferVars, filterVars, projectVars, previous, operands>>

\* y in x
ScopeContainsCall ==
    /\ called = <<>>
    /\ operands.class = "Scope" /\ Len(operands.args) = 2
    /\ called' = <<"Scope.__contains__">>
    /\ returned' = Scope_contains(operands.args[1], operands.args[2])
    /\ UNCHANGED <<inferVars, filterVars, projectVars, previous, operands>>

\* x.negate(), and negate() of what that returned
ScopeNegateCall ==
    /\ operands.class = "Scope" /\ Len(operands.args) = 1
    /\ \/ /\ called = <<>>
          /\ returned' = Scope_negate(operands.args[1])
       \/ /\ called = <<"Scope.negate">>
          /\ returned' = Scope_negate(returned)
    /\ called' = Append(called, "Scope.negate")
    /\ UNCHANGED <<inferVars, filterVars, projectVars, previous, operands>>

(***************************************************************************)
(* SPDXParser (structure.py 469-560).  An expression is given as the list  *)
(* of tokens tokenize finds in it.  current counts from 1.  A member of a  *)
(* parsed tuple is an operator, a DualUnit or a tuple, told apart by type. *)
(***************************************************************************)
Operator(op) == [type |-> "str", value |-> op]

Unit(unit) == [type |-> "DualUnit", value |-> unit]

Tuple(terms) == [type |-> "tuple", value |-> terms]

\* raise SyntaxError(message)
SyntaxError(message) == [raised |-> "SyntaxError", message |-> message]

\* What parse_term and parse_expression return, and where they leave current
Parsed(term, current) == [raised |-> "", term |-> term, current |-> current]

\* The WITH branch without its test of the last term: the token is added to
\* the exceptions of a unit and a tuple is left as it is
with_any_term(terms, token) ==
    IF terms[Len(terms)].type = "tuple" THEN Parsed(terms, 0)
    ELSE Parsed([terms EXCEPT ![Len(terms)].value.exceptions = Append(@, token)], 0)

\* parse_expression, lines 500-503 : WITH after a tuple raises, WITH after a
\* unit puts the token at the end of the unit's exceptions
with_term(terms, token) ==
    IF terms[Len(terms)].type = "tuple"
    THEN SyntaxError("WITH operator must be followed by single spdx not compound expression")
    ELSE Parsed([terms EXCEPT ![Len(terms)].value.exceptions = Append(@, token)], 0)

RECURSIVE parse_term(_, _)
RECURSIVE parse_expression_while(_, _, _)
\* SPDXParser.parse_expression
parse_expression(tokens, current) ==
    LET first == parse_term(tokens, current)
    IN  IF first.raised # "" THEN first
        ELSE parse_expression_while(tokens, <<first.term>>, first.current)

\* SPDXParser.parse_term
parse_term(tokens, current) ==
    IF current > Len(tokens) THEN SyntaxError("Unexpected end of expression")
    ELSE IF tokens[current] = "("
    THEN LET expr == parse_expression(tokens, current + 1)
         IN  IF expr.raised # "" THEN expr
             ELSE IF expr.current > Len(tokens) \/ tokens[expr.current] # ")"
             THEN SyntaxError("Missing closing parenthesis")
             ELSE Parsed(expr.term, expr.current + 1)
    ELSE IF tokens[current] = ")" THEN SyntaxError("Unexpected closing parenthesis")
    ELSE Parsed(Unit(DualUnit(tokens[current], "", <<>>)), current + 1)

\* The while loop of parse_expression
parse_expression_while(tokens, terms, current) ==
    IF current <= Len(tokens) /\ tokens[current] \in {"AND", "OR", "WITH"}
    THEN IF tokens[current] = "WITH"
         THEN IF current + 1 > Len(tokens)
              THEN SyntaxError("Unexpected end of expression")
              ELSE LET added == with_term(terms, tokens[current + 1])
                   IN  IF added.raised # "" THEN added
                       ELSE parse_expression_while(tokens, added.term, current + 2)
         ELSE LET term == parse_term(tokens, current + 1)
              IN  IF term.raised # "" THEN term
                  ELSE parse_expression_while(
                           tokens, terms \o <<Operator(tokens[current]), term.term>>,
                           term.current)
    ELSE Parsed(Tuple(terms), current)

\* SPDXParser.parse after tokenize
SPDXParser_parse(tokens) ==
    LET result == parse_expression(tokens, 1)
    IN  IF result.raised # "" THEN result
        ELSE IF result.current <= Len(tokens)
        THEN SyntaxError("Unexpected token at the end of expression")
        ELSE [raised |-> "", value |-> result.term]

(***************************************************************************)
(* A DualLicense as the set of tuples it is.  A group is tuple(set(...)):  *)
(* its order is the order of the slots of the set's table, which follows   *)
(* from the hashes of the units.  hashing gives for every unit the slots   *)
(* its hash makes it try, in order.                                        *)
(***************************************************************************)
\* The slots of the table of a set of at most three units: of the eight
\* slots of the table only the relative position of those in use counts
Slots == 1..3

\* set.add : the unit goes to the first free slot its hash makes it try;
\* a unit that is in the table already changes nothing
set_add(table, unit, hashing) ==
    IF \E slot \in DOMAIN table : table[slot] = unit THEN table
    ELSE LET free == {n \in DOMAIN hashing[unit] : hashing[unit][n] \notin DOMAIN table}
             first == CHOOSE n \in free : \A m \in free : n <= m
         IN  (hashing[unit][first] :> unit) @@ table

RECURSIVE set_of(_, _, _)
\* The table of the set the units of a sequence are added to in order
set_of(inserted, table, hashing) ==
    IF inserted = <<>> THEN table
    ELSE set_of(Tail(inserted), set_add(table, Head(inserted), hashing), hashing)

\* tuple(set) : the units of the table by ascending slot
tuple_of(table) ==
    LET used == SortedSeq(DOMAIN table)
    IN  [n \in 1..Len(used) |-> table[used[n]]]

\* tuple({...}) of the units of a sequence
set_tuple(inserted, hashing) == tuple_of(set_of(inserted, <<>>, hashing))

\* DualLicense.from_list
DualLicense_from_list(license_list, hashing) ==
    {set_tuple(group, hashing) : group \in license_list}

\* DualLicense.__and__ on tuples
DualLicense_and_tuples(self, other, hashing) ==
    DualLicense_from_list({set_tuple(p[1] \o p[2], hashing) : p \in self \X other},
                          hashing)

\* DualLicense.__or__ on tuples
DualLicense_or_tuples(self, other, hashing) ==
    DualLicense_from_list(self \cup other, hashing)

RECURSIVE expand_expression(_, _, _, _, _)
\* SPDXParser.expand_expression from idx on
expand_expression(expression, idx, previous_op, results, hashing) ==
    IF idx > Len(expression) THEN results
    ELSE IF expression[idx].type = "str"
    THEN expand_expression(expression, idx + 1, expression[idx].value, results, hashing)
    ELSE LET current_results ==
                 IF expression[idx].type = "tuple"
                 THEN expand_expression(expression[idx].value, 1, "AND", {<<>>}, hashing)
                 ELSE DualLicense_from_list({<<expression[idx].value>>}, hashing)
         IN  expand_expression(
                 expression, idx + 1, previous_op,
                 IF previous_op = "AND"
                 THEN DualLicense_and_tuples(results, current_results, hashing)
                 ELSE DualLicense_or_tuples(results, current_results, hashing),
                 hashing)

\* SPDXParser.__call__
SPDXParser_call(tokens, expand, hashing) ==
    LET expression == SPDXParser_parse(tokens)
    IN  IF expression.raised # "" \/ ~expand THEN expression
        ELSE [raised |-> "",
              value |-> expand_expression(expression.value.value, 1, "AND", {<<>>},
                                          hashing)]

\* The tokens of the expressions that are parsed without being expanded
ParserTokens == {"(", ")", "OR", "WITH", "MIT", "Classpath-exception-2.0"}

MaxTokens == 6

TokenLists == UNION {[1..n -> ParserTokens] : n \in 0..MaxTokens}

\* The license identifiers of the expressions that are expanded
LicenseIdentifiers == {"MIT", "Apache-2.0", "GPL-2.0-only"}

\* (a OR b) AND c
Distributed(a, b, c) == <<"(", a, "OR", b, ")", "AND", c>>

\* (a AND c) OR (b AND c)
Expanded(a, b, c) == <<"(", a, "AND", c, ")", "OR", "(", b, "AND", c, ")">>

DnfExpressions ==
    {Distributed(i[1], i[2], i[3]) : i \in LicenseIdentifiers \X LicenseIdentifiers \X LicenseIdentifiers}
    \cup {Expanded(i[1], i[2], i[3]) : i \in LicenseIdentifiers \X LicenseIdentifiers \X LicenseIdentifiers}

\* The orders in which a hash can make a unit try the slots
ProbeOrders == {probe \in [Slots -> Slots] : \A n, m \in Slots : probe[n] = probe[m] => n = m}

\* The hashes a process can give the units of the identifiers
Hashings == [{DualUnit(id, "", <<>>) : id \in LicenseIdentifiers} -> ProbeOrders]

\* parser(expression)
ParseOperands == Operands("SPDXParser", {<<tokens, FALSE, <<>>>> : tokens \in TokenLists})

\* parser(expression, expand=True) in a process with some hashes
ExpandOperands == Operands("SPDXParser", DnfExpressions \X {TRUE} \X Hashings)

\* parser(expression, expand)
SPDXParserCall ==
    /\ called = <<>>
    /\ operands.class = "SPDXParser"
    /\ called' = <<"SPDXParser.__call__">>
    /\ returned' = SPDXParser_call(operands.args[1], operands.args[2], operands.args[3])
    /\ UNCHANGED <<inferVars, filterVars, projectVars, previous, operands>>

\* The units, groups and dual licenses add_condition is called on; a group
\* is kept as the set of its members, whose order add_condition does not
\* look at
ConditionUnits ==
    {DualUnit(id, condition, <<>>) :
        id \in {"MIT", "Apache-2.0"}, condition \in {"", STATIC_LINKING, EXECUTABLE}}
    \cup {DualUnit("GPL-2.0-only", condition, <<"Classpath-exception-2.0">>) :
              condition \in {"", STATIC_LINKING, EXECUTABLE}}

ConditionGroups == {{u, v} : u \in ConditionUnits, v \in ConditionUnits}

AddConditionOperands ==
    Operands("DualLicense",
             ({{}} \cup {{g, h} : g \in ConditionGroups, h \in ConditionGroups})
                 \X {STATIC_LINKING, EXECUTABLE})

\* self.add_condition(conditon)
AddConditionCall ==
    /\ called = <<>>
    /\ operands.class = "DualLicense"
    /\ called' = <<"DualLicense.add_condition">>
    /\ returned' = DualLicense_add_condition(operands.args[1], operands.args[2])
    /\ UNCHANGED <<inferVars, filterVars, projectVars, previous, operands>>

CallInit ==
    /\ InferBegin({ProjectLicenses})
    /\ FilterIdle
    /\ ProjectIdle
    /\ previous = <<>>
    /\ \/ operands \in ScopeOperands
       \/ operands \in ParseOperands
       \/ operands \in ExpandOperands
       \/ operands \in AddConditionOperands
    /\ called = <<>>
    /\ returned = <<>>

CallNext ==
    \/ ScopeAndCall
    \/ ScopeOrCall
    \/ ScopeContainsCall
    \/ ScopeNegateCall
    \/ SPDXParserCall
    \/ AddConditionCall

SpecCalls == CallInit /\ [][CallNext]_vars

\* C13: the intersection of a simplified scope with itself is that scope,
\* also when the scope has a UNIVERSE key with escapes next to other keys
C13_AndIdempotent ==
    (/\ called = <<"Scope.__and__">>
     /\ operands.args[1] \in SimplifiedScopes
     /\ operands.args[2] = operands.args[1]) => returned = operands.args[1]

\* C14: negating a simplified scope twice gives the scope back
C14_DoubleNegation ==
    (called = <<"Scope.negate", "Scope.negate">> /\ operands.args[1] \in SimplifiedScopes)
        => returned = operands.args[1]

\* C15: y in x is true exactly when x | y equals x
C15_ContainsIffUnionEqual ==
    called = <<"Scope.__or__">>
        => (Scope_contains(operands.args[1], operands.args[2]) <=> Scope_or_eq(returned, operands.args[1]))

\* C16: when x contains y, x & z contains y & z, for every scope y
C16_ContainsPreservedByAnd ==
    called = <<"Scope.__and__">>
        => \A y \in Scopes :
              Scope_contains(operands.args[1], y)
                  => Scope_contains(returned, Scope_and(y, operands.args[2]))

\* C17: the empty scope is in the universal scope, and it is in no scope
\* that has no UNIVERSE key
C17_EmptyScopeContained ==
    (called = <<"Scope.__contains__">> /\ operands.args[2] = EmptyScope)
        => /\ operands.args[1] = Scope_universe => returned
           /\ UNIVERSE \notin DOMAIN operands.args[1] => ~returned

\* C18: (a OR b) AND c expands to the same DualLicense as
\* (a AND c) OR (b AND c), in one process, for all identifiers a, b, c
C18_DnfSameDualLicense ==
    (/\ called = <<"SPDXParser.__call__">>
     /\ operands.class = "SPDXParser"
     /\ operands.args[2])
        => \A i \in LicenseIdentifiers \X LicenseIdentifiers \X LicenseIdentifiers :
              operands.args[1] = Distributed(i[1], i[2], i[3])
                  => returned = SPDXParser_call(Expanded(i[1], i[2], i[3]), TRUE,
                                                operands.args[3])

\* A token that is neither a parenthesis nor an operator
Identifier(token) == token \notin {"(", ")", "AND", "OR", "WITH"}

\* tokens[m..n] is a parenthesised subexpression where a term can begin
Parenthesised(tokens, m, n) ==
    /\ tokens[m] = "(" /\ tokens[n] = ")"
    /\ m = 1 \/ tokens[m - 1] \in {"(", "AND", "OR"}
    /\ SPDXParser_parse(SubSeq(tokens, m + 1, n - 1)).raised = ""

RECURSIVE with_operands(_, _)
\* The operands of the WITHs that follow one another from tokens[n] on
with_operands(tokens, n) ==
    IF n + 1 <= Len(tokens) /\ tokens[n] = "WITH"
    THEN <<tokens[n + 1]>> \o with_operands(tokens, n + 2)
    ELSE <<>>

\* C19: an expression in which WITH comes directly after a parenthesised
\* subexpression raises SyntaxError and gives no result; WITH after the
\* identifier an expression begins with puts its right operand at the end of
\* the exceptions of that identifier's unit, and identifier WITH operand
\* alone parses
C19_WithBinding ==
    (/\ called = <<"SPDXParser.__call__">>
     /\ operands.class = "SPDXParser"
     /\ ~operands.args[2])
        => LET tokens == operands.args[1]
           IN  /\ (\E m, n \in 1..Len(tokens) :
                      /\ m < n /\ n < Len(tokens)
                      /\ Parenthesised(tokens, m, n)
                      /\ tokens[n + 1] = "WITH")
                     => returned.raised = "SyntaxError" /\ "value" \notin DOMAIN returned
               /\ (Len(tokens) >= 3 /\ Identifier(tokens[1]) /\ tokens[2] = "WITH")
                     => /\ Len(tokens) = 3 => returned.raised = ""
                        /\ returned.raised = ""
                              => returned.value.value[1]
                                    = Unit(DualUnit(tokens[1], "", with_operands(tokens, 2)))

\* ( MIT ) WITH Classpath-exception-2.0 has raised
C19_Witness ==
    /\ called = <<"SPDXParser.__call__">>
    /\ operands.class = "SPDXParser"
    /\ operands.args[1] = <<"(", "MIT", ")", "WITH", "Classpath-exception-2.0">>
    /\ returned.raised = "SyntaxError"

\* C20: add_condition(c) gives the groups of self with every unit
\* (spdx_id, condition, exceptions) replaced by (spdx_id, c, exceptions), so
\* that no member with another or an empty condition is left
C20_AddConditionReplaces ==
    called = <<"DualLicense.add_condition">>
        => returned = {{DualUnit(unit.spdx_id, operands.args[2], unit.exceptions) :
                           unit \in group} : group \in operands.args[1]}

\* Python's None as the condition of a unit; no condition of the model is it
None == "None"

\* C21: every unit of an outbound stored for a node has the condition None
C21_OutboundConditionCleared ==
    \A node \in DOMAIN context.nodes :
        "outbound" \in DOMAIN context.nodes[node] =>
            \A group \in context.nodes[node].outbound :
                \A unit \in group : unit.condition = None

\* The children of a node whose stored outbound is truthy, in the order of
\* the loop
contributing(ctx, node) ==
    SelectSeq(SortedSeq(successors(ctx, node)),
              LAMBDA child : /\ "outbound" \in DOMAIN ctx.nodes[child]
                             /\ DualLicense_bool(ctx.nodes[child].outbound))

RECURSIVE intersection(_, _)
\* outbound(c1) & ... & outbound(cn) for the children c1 .. cn, n > 0
intersection(ctx, children) ==
    IF Len(children) = 1 THEN ctx.nodes[children[1]].outbound
    ELSE DualLicense_and(ctx.nodes[children[1]].outbound, intersection(ctx, Tail(children)))

\* C22: the before_check of a node that has no licenses of its own is the
\* intersection of the stored outbounds of its children, and the outbound of
\* the child when one child only has one
C22_TransparentNode ==
    \A node \in DOMAIN context.nodes :
        (/\ own_licenses(context.nodes[node]) = {}
         /\ "before_check" \in DOMAIN context.nodes[node])
            => /\ contributing(context, node) # <<>>
               /\ context.nodes[node].before_check
                     = intersection(context, contributing(context, node))


(***************************************************************************)
(* Exception materialisation (lict/parser/exception.py).                   *)
(***************************************************************************)
\* load_exceptions : the exception files the parser reads
all_exceptions ==
    << LicenseFeat("Classpath-exception-2.0", Acts({"sublicense"}, Everywhere),
                   NoActions, NoActions, NoRelicense, {}) >>

\* "exception in self.all_exceptions"
exception_loaded(exception) ==
    \E n \in 1..Len(all_exceptions) : all_exceptions[n].spdx_id = exception

\* LicenseFeat.cover_from : the license under the exception, the entries of
\* the exception replacing those of the license for the same action
cover_from(lic, exception) ==
    LET cover(mine, theirs) ==
            [n \in DOMAIN mine \cup DOMAIN theirs |->
                IF n \in DOMAIN theirs THEN theirs[n] ELSE mine[n]]
    IN LicenseFeat(lic.spdx_id \o "-with-" \o exception.spdx_id,
                   cover(lic.can, exception.can), cover(lic.cannot, exception.cannot),
                   cover(lic.must, exception.must), lic.relicense, lic.triggering)

\* Whether the node loop of BaseExceptionParser.parse synthesises a license
\* for the exception of the unit
synthesised(loaded, unit, exception) ==
    /\ ~Checker_is_license_exist(loaded, unit.spdx_id \o "-with-" \o exception)
    /\ exception_loaded(exception)
    /\ \E n \in 1..Len(loaded) : loaded[n].spdx_id = unit.spdx_id

\* new_for_infer.values() after the node loop, for the units found on the
\* nodes (at most one of them carries an exception, and only one)
new_for_infer(loaded, found) ==
    LET news == {<<unit, exception>> \in found \X {"Classpath-exception-2.0", "Bison-exception-2.2"} :
                    /\ unit.exceptions = <<exception>>
                    /\ synthesised(loaded, unit, exception)}
    IN IF news = {} THEN <<>>
       ELSE LET new == CHOOSE new \in news : TRUE
            IN << cover_from(loaded[CHOOSE n \in 1..Len(loaded) : loaded[n].spdx_id = new[1].spdx_id],
                             all_exceptions[CHOOSE n \in 1..Len(all_exceptions) :
                                                all_exceptions[n].spdx_id = new[2]]) >>

\* src_node.replace("-or-later", "-only") on the identifiers of the pool
replace_or_later(id) ==
    CASE id = "GPL-2.0-or-later"  -> "GPL-2.0-only"
      [] id = "LGPL-2.1-or-later" -> "LGPL-2.1-only"
      [] OTHER -> id

\* GraphManager.remove_edge of one edge index: one of the parallel edges
\* with that data goes
RECURSIVE remove_edge(_, _)
remove_edge(graph, edge) ==
    IF graph = <<>> THEN <<>>
    ELSE IF Head(graph) = edge THEN Tail(graph)
    ELSE <<Head(graph)>> \o remove_edge(Tail(graph), edge)

\* The body of the edge loop for one edge with the blacklisted path
rewrite_edge(graph, edge) ==
    LET src_license == IF IdParts(edge.u).or_later THEN replace_or_later(edge.u) ELSE edge.u
        dst_license == IF IdParts(edge.u).or_later THEN edge.v ELSE replace_or_later(edge.v)
        edges == query_edges(graph, src_license, dst_license)
    IN remove_edge(graph \o [j \in 1..Len(edges) |-> [edges[j] EXCEPT !.u = edge.u, !.v = edge.v]],
                   edge)

\* The edge loop over tuple(filter_edges(path=spdx_id))
RECURSIVE rewrite_edges(_, _)
rewrite_edges(graph, filtered) ==
    IF filtered = <<>> THEN graph
    ELSE rewrite_edges(rewrite_edge(graph, Head(filtered)), Tail(filtered))

\* The blacklist loop, the blacklist being a list
RECURSIVE remove_or_later_edges(_, _)
remove_or_later_edges(graph, black_list) ==
    IF black_list = <<>> THEN graph
    ELSE remove_or_later_edges(
            rewrite_edges(graph, SelectSeq(graph, LAMBDA e : e.path = Head(black_list))),
            Tail(black_list))

\* The units the nodes of a project carry
ExceptionUnits ==
    {{}, {DualUnit("MIT", "", <<>>)},
     {DualUnit("GPL-2.0-only", "", <<"Classpath-exception-2.0">>)},
     {DualUnit("GPL-2.0-only", "", <<"Bison-exception-2.2">>), DualUnit("MIT", "", <<>>)}}

\* The blacklists of the Config
ExceptionBlacklists == {<<>>, <<"GPL-3.0-only">>, <<"GPL-3.0-only", "LGPL-3.0-only">>}

\* BaseExceptionParser.parse up to its call of check_compatibility on the
\* compatibility graph an earlier inference left, which is kept aside
ExceptionParse ==
    /\ pc = "done"
    /\ operands = <<>>
    /\ \E found \in ExceptionUnits, black_list \in ExceptionBlacklists :
           /\ operands' = [class |-> "BaseExceptionParser", args |-> <<found, black_list>>]
           /\ licenses' = licenses \o new_for_infer(licenses, found)
    /\ previous' = compatible_graph
    /\ pc' = "pairs"
    /\ k' = 0
    /\ current_rule' = start_rule
    /\ visited' = {}
    /\ applied' = 0
    /\ UNCHANGED <<compatible_graph, callback_queque, registered, executed>>
    /\ UNCHANGED <<filterVars, projectVars, called, returned>>

\* The rest of BaseExceptionParser.parse, after check_compatibility returned
ExceptionParsed ==
    /\ pc = "done"
    /\ operands # <<>>
    /\ operands.class = "BaseExceptionParser"
    /\ compatible_graph' = remove_or_later_edges(compatible_graph, operands.args[2])
    /\ pc' = "parsed"
    /\ UNCHANGED <<licenses, callback_queque, k, current_rule, visited, applied,
                   registered, executed>>
    /\ UNCHANGED <<filterVars, projectVars, apartVars>>

ExceptionNext == InferNext \/ ExceptionParse \/ ExceptionParsed

SpecException == InferInit /\ [][ExceptionNext]_vars

\* The edges of the graph between two of the licenses the graph had edges of
\* before the parser ran
between_existing(graph, before) ==
    SelectSeq(graph, LAMBDA e : /\ \E n \in 1..Len(before) : e.u \in {before[n].u, before[n].v}
                                /\ \E n \in 1..Len(before) : e.v \in {before[n].u, before[n].v})

\* C23: when the check_compatibility call of the exception parser has
\* returned, the edges between two licenses that were in the compatibility
\* graph before are the edges that were there before (none added, none
\* removed); so the graph is unchanged when no license was synthesised
C23_ExistingEdgesKept ==
    (pc = "done" /\ operands # <<>>)
        => between_existing(compatible_graph, previous) = previous


\* The or-later callback at the head of the queue is about to run for a pair
\* whose edge A -> B is not yet UNCONDITIONAL, and some later version of A
\* has an UNCONDITIONAL edge to B
or_later_upgrade_due ==
    /\ pc = "drain"
    /\ callback_queque # <<>>
    /\ Head(callback_queque).kind = "OrLaterRelicenseRule"
    /\ LET a == Head(callback_queque).a.spdx_id
           b == Head(callback_queque).b.spdx_id
           later_licenses == later_licenses_of(license_keys, a)
       IN /\ ~has_edge(compatible_graph, a, b, UNCONDITIONAL_COMPATIBLE)
          /\ \E n \in 1..Len(later_licenses) :
                 has_edge(compatible_graph, later_licenses[n], b, UNCONDITIONAL_COMPATIBLE)

\* C24: when the or-later callback runs for a pair (A, B) whose edge A -> B
\* is not UNCONDITIONAL and a later version T of A has an UNCONDITIONAL edge
\* T -> B, then after the callback A -> B and B -> A both carry an
\* UNCONDITIONAL edge
C24_OrLaterBidirectional ==
    [][(or_later_upgrade_due /\ OrLaterCallbackStep)
         => LET a == Head(callback_queque).a.spdx_id
                b == Head(callback_queque).b.spdx_id
            IN /\ has_edge(compatible_graph', a, b, UNCONDITIONAL_COMPATIBLE)
               /\ has_edge(compatible_graph', b, a, UNCONDITIONAL_COMPATIBLE)]_vars


\* The or-later callback that ran last upgraded both directions of its pair
\* by way of a later version
C24_Witness ==
    /\ pc = "drain"
    /\ executed # <<>>
    /\ executed[Len(executed)].kind = "OrLaterRelicenseRule"
    /\ LET a == executed[Len(executed)].a.spdx_id
           b == executed[Len(executed)].b.spdx_id
       IN /\ \E n \in 1..Len(compatible_graph) :
                 /\ compatible_graph[n] = Edge(a, b, UNCONDITIONAL_COMPATIBLE, EmptyScope,
                                               "OrLaterRelicenseRule", compatible_graph[n].path)
                 /\ compatible_graph[n].path \notin {"", b}
                 /\ has_edge(compatible_graph, compatible_graph[n].path, b, UNCONDITIONAL_COMPATIBLE)
          /\ has_edge(compatible_graph, b, a, UNCONDITIONAL_COMPATIBLE)


\* The relicense callback at the head of the queue is about to run for a
\* pair whose edge A -> B is not UNCONDITIONAL, and some relicense target of
\* A has an UNCONDITIONAL edge to B
relicense_due ==
    /\ pc = "drain"
    /\ callback_queque # <<>>
    /\ Head(callback_queque).kind = "ExceptRelicenseRule"
    /\ LET license_a == Head(callback_queque).a
           b == Head(callback_queque).b.spdx_id
       IN /\ ~has_edge(compatible_graph, license_a.spdx_id, b, UNCONDITIONAL_COMPATIBLE)
          /\ license_a.relicense.present
          /\ \E n \in 1..Len(license_a.relicense.target) :
                 has_edge(compatible_graph, license_a.relicense.target[n], b,
                          UNCONDITIONAL_COMPATIBLE)

\* C25: when the relicense callback runs for a pair (A, B) whose edge A -> B
\* is not UNCONDITIONAL and a relicense target T of A has an UNCONDITIONAL
\* edge T -> B, then after the callback there is no INCOMPATIBLE edge A -> B
\* and there is a CONDITIONAL edge A -> B whose scope is the relicense scope
\* of A
C25_RelicenseReplacesIncompatible ==
    [][(relicense_due /\ RelicenseCallbackStep)
         => LET license_a == Head(callback_queque).a
                b == Head(callback_queque).b.spdx_id
                edges == query_edges(compatible_graph', license_a.spdx_id, b)
            IN /\ ~has_edge(compatible_graph', license_a.spdx_id, b, INCOMPATIBLE)
               /\ \E n \in 1..Len(edges) :
                      /\ edges[n].compatibility = CONDITIONAL_COMPATIBLE
                      /\ edges[n].scope = license_a.relicense.scope]_vars

\* The relicense callback that ran last left the pair with the CONDITIONAL
\* edge of the relicense scope as its only edge from A to B, a relicense
\* target being UNCONDITIONAL towards B
C25_Witness ==
    /\ pc = "drain"
    /\ executed # <<>>
    /\ executed[Len(executed)].kind = "ExceptRelicenseRule"
    /\ LET license_a == executed[Len(executed)].a
           b == executed[Len(executed)].b.spdx_id
       IN /\ license_a.relicense.present
          /\ \E n \in 1..Len(license_a.relicense.target) :
                 has_edge(compatible_graph, license_a.relicense.target[n], b,
                          UNCONDITIONAL_COMPATIBLE)
          /\ query_edges(compatible_graph, license_a.spdx_id, b)
                 = << Edge(license_a.spdx_id, b, CONDITIONAL_COMPATIBLE,
                           license_a.relicense.scope, "ExceptRelicenseRule", "") >>


\* What the loops of ClauseConflictRule.__call__ leave for the pair the chain
\* is at
clause_conflicts ==
    ConflictFold(license_a_of(k), license_b_of(k),
                 [incompatible |-> FALSE, conflict_flag |-> FALSE,
                  condition_scope |-> Scope_universe, license_a_scope |-> Scope_universe],
                 ConflictItems(license_a_of(k), license_b_of(k)))

\* The chain is at the clause-conflict rule for a pair (A, B) that has a
\* conflicting action, B -> A being not UNCONDITIONAL
clause_conflict_found ==
    /\ pc = "chain"
    /\ current_rule = "ClauseConflictRule"
    /\ ~has_edge(compatible_graph, license_b_of(k).spdx_id, license_a_of(k).spdx_id,
                 UNCONDITIONAL_COMPATIBLE)
    /\ clause_conflicts.incompatible \/ clause_conflicts.conflict_flag

\* C26: when the clause-conflict rule finds a conflicting action for (A, B)
\* and B -> A is not UNCONDITIONAL, it adds exactly one edge A -> B to the
\* graph, INCOMPATIBLE when a conflict scope is universal or a compatible
\* scope is empty and otherwise CONDITIONAL with the scope license_a_scope
C26_ClauseConflictRecordsEdge ==
    [][(clause_conflict_found /\ ClauseConflictStep)
         => \E edge \in {Edge(license_a_of(k).spdx_id, license_b_of(k).spdx_id, INCOMPATIBLE,
                              EmptyScope, "ClauseConflictRule", ""),
                         Edge(license_a_of(k).spdx_id, license_b_of(k).spdx_id,
                              CONDITIONAL_COMPATIBLE, clause_conflicts.license_a_scope,
                              "ClauseConflictRule", "")} :
                /\ compatible_graph' = Append(compatible_graph, edge)
                /\ (edge.compatibility = INCOMPATIBLE)
                     = (clause_conflicts.incompatible
                        \/ ~Scope_bool(clause_conflicts.condition_scope))]_vars


\* The license carries an action the schema flags immutability for, in the
\* modal the flag names
flagged_immutability(lic) ==
    \E x \in LicenseFeat_features(lic) :
        SchemaHas(x[1]) /\ x[2] \in Schemas_getitem(x[1]).immutability

\* Every edge from the one license to the other is INCOMPATIBLE, and there
\* is one
only_incompatible(graph, a, b) ==
    /\ query_edges(graph, a, b) # <<>>
    /\ query_edges(graph, a, b) = query_edge_by_label(graph, a, b, INCOMPATIBLE)

\* C27: when check_compatibility has returned, chain and callback drain
\* done, every pair (A, B) of which one license carries an action flagged
\* immutability has edges A -> B, all of them INCOMPATIBLE
C27_ImmutableVerdictFinal ==
    pc = "done" =>
        \A i, j \in 1..Len(licenses) :
            (i # j /\ (flagged_immutability(licenses[i]) \/ flagged_immutability(licenses[j])))
                => only_incompatible(compatible_graph, licenses[i].spdx_id, licenses[j].spdx_id)

\* The same for the dicts without the public-domain license
C27_ExceptPublicDomain ==
    (\A n \in 1..Len(licenses) : licenses[n].spdx_id # "public-domain")
        => C27_ImmutableVerdictFinal


\* Pass B is about to finish the loop body for a conflict site: the filter
\* left no group of the before_check of the node, which has an outbound
conflict_site ==
    /\ pc = "filtered"
    /\ todo # <<>>
    /\ new_dual_lic = {}
    /\ DualLicense_bool(context.nodes[Head(todo)].outbound)

\* The conflict ids of the parents of the node
parent_ids(ctx, node) == {item[2] : item \in parent_conflicts(ctx, node)}

\* C28: every conflict id of a parent that the loop body adds to the
\* conflict_group of a conflict site has a pattern with a conflict that is
\* among the conflicts of the node
C28_InheritsOnlySharedPatterns ==
    [][(conflict_site /\ CheckBind)
         => \A id \in parent_ids(context, Head(todo)) :
                id \in context'.nodes[Head(todo)].conflict_group
                    => conflicts_table[id] \cap conflicts # {}]_vars


\* The groups filter_dual_license returns of a dual license: those without a
\* blacklisted unit and without a pair the check answers INCOMPATIBLE for
surviving(dual, black_list, graph) ==
    {group \in dual :
        /\ blacklisted(group, black_list) = {}
        /\ \A pair \in distinct_pairs(group) :
               \A a \in pair : \A b \in pair \ {a} :
                   check_compatiblity(graph, a, b, FALSE) # INCOMPATIBLE}

\* Pass B has given the node a conflict id
has_conflict_id(node_dict) ==
    "conflict_group" \in DOMAIN node_dict /\ node_dict.conflict_group # {}

\* C29: when Pass B is over, every node with a before_check of which the
\* filter leaves no group has a conflict_group that is not empty
C29_ConflictSiteHasId ==
    pc = "checked" =>
        \A node \in DOMAIN context.nodes :
            ("before_check" \in DOMAIN context.nodes[node]
             /\ surviving(context.nodes[node].before_check, config.blacklist, compatible_graph) = {})
                => has_conflict_id(context.nodes[node])

\* Pass B is over and has left a conflict site without parents and a
\* conflict site below a parent that has a conflict id, each with an id
C29_Witness ==
    /\ pc = "checked"
    /\ \E node, other \in DOMAIN context.nodes :
          /\ \A n \in {node, other} :
                /\ "before_check" \in DOMAIN context.nodes[n]
                /\ surviving(context.nodes[n].before_check, config.blacklist, compatible_graph) = {}
                /\ has_conflict_id(context.nodes[n])
          /\ predecessors(context, node) = {}
          /\ \E parent \in predecessors(context, other) : has_conflict_id(context.nodes[parent])


\* compatible_results of check_compatiblity
compatible_results(unk) ==
    {CONDITIONAL_COMPATIBLE, UNCONDITIONAL_COMPATIBLE} \cup (IF unk THEN {UNKNOWN} ELSE {})

\* The query of the checker from one unit to another under the scope of the
\* first
query(graph, a, b) ==
    Checker_check_compatibility(graph, unit_spdx(a), unit_spdx(b), unit_scope(a))

\* The query answers with one of compatible_results in one direction at least
either_direction(graph, a, b, unk) ==
    query(graph, a, b) \in compatible_results(unk) \/ query(graph, b, a) \in compatible_results(unk)

\* C30: for any two units of different spdx_id of a group the filter is
\* called with, check_compatiblity returns INCOMPATIBLE exactly when neither the
\* query a -> b under a's scope nor the query b -> a under b's scope answers
\* UNCONDITIONAL or CONDITIONAL (or UNKNOWN, ignore_unk being set), and
\* otherwise returns one of these answers; and every pair the filter has
\* checked in a group it returns has such an answer in one direction
C30_EitherDirectionSuffices ==
    /\ (pc = "blacklist" /\ turn = 0) =>
          \A group \in dual_lic : \A a, b \in group :
             a.spdx_id # b.spdx_id =>
                /\ (check_compatiblity(compatible_graph, a, b, ignore_unk) = INCOMPATIBLE)
                       = ~either_direction(compatible_graph, a, b, ignore_unk)
                /\ check_compatiblity(compatible_graph, a, b, ignore_unk)
                       \in compatible_results(ignore_unk) \cup {INCOMPATIBLE}
    /\ pc = "filtered" =>
          \A group \in new_dual_lic :
             \A pair \in distinct_pairs({x \in group :
                            Checker_is_license_exist(licenses, unit_spdx(x)) \/ ~ignore_unk}) :
                \A a \in pair : \A b \in pair \ {a} :
                    either_direction(compatible_graph, a, b, ignore_unk)

\* The filter has returned a group with two units of which the query from the
\* first to the second answers INCOMPATIBLE and the query back does not
C30_Witness ==
    /\ pc = "filtered"
    /\ \E group \in new_dual_lic : \E a, b \in group :
          /\ a.spdx_id # b.spdx_id
          /\ query(compatible_graph, a, b) = INCOMPATIBLE
          /\ query(compatible_graph, b, a) \in compatible_results(ignore_unk)
          /\ check_compatiblity(compatible_graph, a, b, ignore_unk) # INCOMPATIBLE

====
